---- MODULE Spec2Model ----
(***************************************************************************)
(* Prompt-block loading of OpenAnalyst: the file-system repository         *)
(* (FileSystemPromptBlockRepository) with its per-name memo and its file   *)
(* watcher, and the caching load use case (LoadPromptBlocks) on top of it. *)
(*                                                                         *)
(* Every asynchronous method is split at its awaits: a call is started by  *)
(* one action (the synchronous prefix up to the first await), then reads   *)
(* one search-path directory per step, and the step that reads the last    *)
(* directory also runs the synchronous continuation (filter, cache write,  *)
(* return).  Calls of different callers interleave at those points, as     *)
(* they do on the extension host's event loop.                             *)
(*                                                                         *)
(* Variables whose comment says "history" record what happened and are     *)
(* never read by a modelled operation.                                     *)
(***************************************************************************)
EXTENDS Integers, Sequences, FiniteSets, TLC

\* ---------------------------------------------------------------- bounds
TickMs == 150000
MaxNow == 300000
MaxVersion == 1
MaxWatchers == 1
MaxHandles == 2
MaxActive == 4
MaxCalls == 3
MaxTemplated == 2
MaxInstances == 2

\* ------------------------------------------------------ program constants
cacheTimeout == 300000
repositoryCacheTimeout == 300000

\* ------------------------------------------------------------ input sets
Callers == {"c1", "c2"}
Names == {"x", "y", "z"}
NameSeq == <<"x", "y", "z">>

\* Names as callers may pass them to loadByName: the names of the corpus and
\* names the format test has to reject, each with its characters.
NameInputs == Names \cup {"", "../x", "x y"}

NameText(n) ==
    CASE n = "" -> <<>>
      [] n = "../x" -> <<".", ".", "/", "x">>
      [] n = "x y" -> <<"x", " ", "y">>
      [] OTHER -> <<n>>

NameFormatChars ==
    {"a", "b", "c", "d", "e", "f", "g", "h", "i", "j", "k", "l", "m",
     "n", "o", "p", "q", "r", "s", "t", "u", "v", "w", "x", "y", "z",
     "A", "B", "C", "D", "E", "F", "G", "H", "I", "J", "K", "L", "M",
     "N", "O", "P", "Q", "R", "S", "T", "U", "V", "W", "X", "Y", "Z",
     "0", "1", "2", "3", "4", "5", "6", "7", "8", "9", "_", "-"}

\* The format test with every name accepted.
matchesEveryName(n) == TRUE

\* name.match(/^[a-zA-Z0-9_-]+$/)
matchesNameFormat(n) ==
    /\ Len(NameText(n)) >= 1
    /\ \A i \in 1..Len(NameText(n)) : NameText(n)[i] \in NameFormatChars
PromptCategory == {"analysis", "visualization", "reporting", "methodology"}
CategoryInputs == {"analysis"}

getSearchPaths == <<"workspace", "global", "defaults">>
Sources == {"workspace", "global", "defaults"}

Absent == [kind |-> "absent", category |-> "", enabled |-> FALSE, rev |-> 0]
Bad == [kind |-> "bad", category |-> "", enabled |-> FALSE, rev |-> 0]
Good(c, e, r) == [kind |-> "ok", category |-> c, enabled |-> e, rev |-> r]

NoBlock == [name |-> "", category |-> "", enabled |-> FALSE, rev |-> 0, source |-> ""]

categoryKey(c) ==
    CASE c = "analysis" -> "category:analysis"
      [] c = "visualization" -> "category:visualization"
      [] c = "reporting" -> "category:reporting"
      [] OTHER -> "category:methodology"

cacheKeyOf(op, arg) == IF op = "execute" THEN "all" ELSE categoryKey(arg)

CacheKeys == {"all"} \cup {categoryKey(c) : c \in CategoryInputs}

filePath(s, n) ==
    CASE s = "workspace" /\ n = "x" -> "workspace/prompts/x.yaml"
      [] s = "workspace" /\ n = "y" -> "workspace/prompts/y.yaml"
      [] s = "workspace" -> "workspace/prompts/z.yaml"
      [] s = "global" /\ n = "x" -> "global/prompts/x.yaml"
      [] s = "global" /\ n = "y" -> "global/prompts/y.yaml"
      [] s = "global" -> "global/prompts/z.yaml"
      [] s = "defaults" /\ n = "x" -> "defaults/prompts/x.yaml"
      [] s = "defaults" /\ n = "y" -> "defaults/prompts/y.yaml"
      [] OTHER -> "defaults/prompts/z.yaml"

VARIABLES
    files,            \* the block files: [Sources -> [Names -> content]]
    dirs,             \* the search-path directories: [Sources -> DirectoryStates]
    now,              \* Date.now()
    cache,            \* LoadPromptBlocks.cache: key -> <<>> or <<entry>>
    cacheVersion,     \* LoadPromptBlocks.cacheVersion
    repoCache,        \* FileSystemPromptBlockRepository.cache: name -> <<>> or <<memo>>
    fileWatcher,      \* FileSystemPromptBlockRepository.fileWatcher: 0 or a watcher id
    pendingEvent,     \* a file event of the active watcher not yet delivered
    handles,          \* the dispose functions enableHotReload/watchForChanges have returned
    call,             \* per caller: the asynchronous call it is suspended in
    lastResult,       \* the value the latest step returned to its caller (NoResult: none)
    alias,            \* the cache key whose stored array lastResult.blocks is, or ""
    inval,            \* history: in-flight calls that read a directory or a file before
                      \* an invalidation or a clearing of the repository memo
    abandoned,        \* history: callers that stopped awaiting their latest load
    staleKeys,        \* history: keys whose entry was written by a load in inval
    preEventKeys,     \* history: keys whose entry predates a hot-reload notification
    awaitingExecute,  \* history: no execute() has started since the last invalidateCache()
    served,           \* history: what lastResult was served from
    started,          \* the number of calls started so far
    activePrompts,    \* the activation list handed to EnhanceSystemPrompt.execute
    result,           \* <<>> or <<the SystemPromptResult execute() returned>>
    systemPrompt,     \* the original prompt handed to EnhanceSystemPrompt.execute
    summary,          \* <<>> or <<the text generatePromptSummary() returned>>
    data,             \* the PromptBlockData handed to PromptBlock.create
    instances,        \* the PromptBlock instances that exist, in order of construction
    outcome,          \* what the latest PromptBlock operation returned or threw
    rawData,          \* the value handed to YamlPromptBlockParser.validate
    validation,       \* <<>> or <<what validate() returned or threw>>
    factory,          \* PromptBlocksFactory: its three instance fields (0, <<>>: undefined)
    returned,         \* history: what the factory's create calls returned, in call order
    activeBlocks,     \* PromptBlocksProvider: the activeBlocks state, queued updates applied
    renderedBlocks    \* the activeBlocks value the callbacks of the latest render closed over

vars == <<files, dirs, now, cache, cacheVersion, repoCache, fileWatcher, pendingEvent,
          handles, call, lastResult, alias, inval, abandoned, staleKeys,
          preEventKeys, awaitingExecute, served, started, activePrompts, result,
          systemPrompt, summary, data, instances, outcome, rawData, validation,
          factory, returned, activeBlocks, renderedBlocks>>

composerVars == <<activePrompts, result, systemPrompt, summary>>

entityVars == <<data, instances, outcome, rawData, validation>>

wiringVars == <<factory, returned, activeBlocks, renderedBlocks>>

\* --------------------------------------------------------------- helpers
Reverse(s) == [i \in 1..Len(s) |-> s[Len(s) + 1 - i]]

Idle == [op |-> "none", arg |-> "", idx |-> 0, acc |-> <<>>]

\* Callers are interchangeable: a new call takes the first free slot.
CallerSeq == <<"c1", "c2">>
FreeSlot(p) ==
    \E i \in 1..Len(CallerSeq) :
        /\ CallerSeq[i] = p
        /\ call[p].op = "none"
        /\ \A j \in 1..(i - 1) : call[CallerSeq[j]].op # "none"

LoadOps == {"execute", "executeByCategory"}
ScanOps == LoadOps \cup {"loadAll"}
NameOps == {"loadByName", "executeByName"}

NoResult == [op |-> "none", arg |-> "", blocks |-> <<>>,
             loadedCount |-> 0, errorCount |-> 0, fromCache |-> FALSE,
             success |-> FALSE, source |-> ""]

NotServed == [stale |-> FALSE, preEvent |-> FALSE, firstAfterInvalidate |-> FALSE]

\* A step that returns nothing to any caller.
NoReturn ==
    /\ lastResult' = NoResult
    /\ alias' = ""
    /\ served' = NotServed

\* Map.prototype.set on an insertion-ordered map keyed by block name.
MapSet(m, b) ==
    IF \E i \in 1..Len(m) : m[i].name = b.name
    THEN [i \in 1..Len(m) |-> IF m[i].name = b.name THEN b ELSE m[i]]
    ELSE Append(m, b)

RECURSIVE MapSetAll(_, _)
MapSetAll(m, bs) ==
    IF bs = <<>> THEN m ELSE MapSetAll(MapSet(m, Head(bs)), Tail(bs))

\* ------------------------------------------------------------ repository
loadBlockFromFile(f, s, n) ==
    IF f[s][n].kind = "ok"
    THEN [success |-> TRUE,
          block |-> [name |-> n, category |-> f[s][n].category,
                     enabled |-> f[s][n].enabled, rev |-> f[s][n].rev,
                     source |-> s],
          source |-> s]
    ELSE [success |-> FALSE, block |-> NoBlock, source |-> s]

RECURSIVE DirectoryBlocks(_, _, _)
DirectoryBlocks(f, s, ns) ==
    IF ns = <<>> THEN <<>>
    ELSE LET r == loadBlockFromFile(f, s, Head(ns))
             rest == DirectoryBlocks(f, s, Tail(ns))
         IN IF f[s][Head(ns)].kind # "absent" /\ r.success
            THEN <<r.block>> \o rest
            ELSE rest

\* A search path is a directory that can be listed, is no directory (or does
\* not exist), or is a directory whose listing fails.
DirectoryStates == {"ok", "missing", "unreadable"}

AllReadable == [s \in Sources |-> "ok"]

\* One file that fails to load makes the whole directory fail.
loadBlocksFromDirectoryFailFast(d, f, s) ==
    IF d[s] = "ok" /\ \A n \in Names : f[s][n].kind # "bad"
    THEN [threw |-> FALSE, blocks |-> DirectoryBlocks(f, s, NameSeq)]
    ELSE [threw |-> d[s] # "missing", blocks |-> <<>>]

\* threw: the readdir failure rethrown as "Failed to read directory".
loadBlocksFromDirectory(d, f, s) ==
    CASE d[s] = "missing" -> [threw |-> FALSE, blocks |-> <<>>]
      [] d[s] = "unreadable" -> [threw |-> TRUE, blocks |-> <<>>]
      [] OTHER -> [threw |-> FALSE, blocks |-> DirectoryBlocks(f, s, NameSeq)]

\* The age test taken inclusively: an entry of exactly five minutes is served.
getCachedBlockInclusive(rc, n, t) ==
    IF n \in DOMAIN rc /\ rc[n] # <<>> /\ t - rc[n][1].timestamp <= repositoryCacheTimeout
    THEN rc[n] ELSE <<>>

getCachedBlock(rc, n, t) ==
    IF n \in DOMAIN rc /\ rc[n] # <<>> /\ t - rc[n][1].timestamp < repositoryCacheTimeout
    THEN rc[n] ELSE <<>>

cacheBlock(rc, n, block, t, src) ==
    [rc EXCEPT ![n] = <<[block |-> block, timestamp |-> t, source |-> src]>>]

clearCache == [n \in Names |-> <<>>]

\* -------------------------------------------------------------- use case
\* The age test with <= in place of <.
IsValidEntryInclusive(e, t, v) == t - e.timestamp <= cacheTimeout /\ e.version = v

IsValidEntry(e, t, v) == t - e.timestamp < cacheTimeout /\ e.version = v

getCachedBlocks(c, key, t, v) ==
    IF c[key] # <<>> /\ IsValidEntry(c[key][1], t, v) THEN c[key] ELSE <<>>

\* The cache write left out.
cacheBlocksSkipped(c, key, blocks, t, v) == c

cacheBlocks(c, key, blocks, t, v) ==
    [c EXCEPT ![key] = <<[blocks |-> blocks, timestamp |-> t, version |-> v]>>]

\* Every block taken for enabled.
isEnabledAlways(b) == TRUE

isEnabled(b) == b.enabled

loadByCategory(blocks, c) == SelectSeq(blocks, LAMBDA b : b.category = c)

cacheDelete(c, key) == [c EXCEPT ![key] = <<>>]

ExecuteStart(p, op, arg) ==
    /\ FreeSlot(p)
    /\ started < MaxCalls
    /\ started' = started + 1
    /\ abandoned' = abandoned \ {p}
    /\ LET key == cacheKeyOf(op, arg)
           cached == getCachedBlocks(cache, key, now, cacheVersion)
       IN IF cached # <<>>
          THEN /\ lastResult' = [op |-> op, arg |-> arg,
                                 blocks |-> cached[1].blocks,
                                 loadedCount |-> Len(cached[1].blocks),
                                 errorCount |-> 0, fromCache |-> TRUE,
                                 success |-> FALSE, source |-> ""]
               /\ alias' = key
               /\ served' = [stale |-> key \in staleKeys,
                             preEvent |-> key \in preEventKeys,
                             firstAfterInvalidate |-> op = "execute" /\ awaitingExecute]
               /\ UNCHANGED <<cache, call, staleKeys, preEventKeys>>
          ELSE /\ cache' = cacheDelete(cache, key)
               /\ call' = [call EXCEPT ![p] = [op |-> op, arg |-> arg, idx |-> 1, acc |-> <<>>]]
               /\ NoReturn
               /\ staleKeys' = staleKeys \ {key}
               /\ preEventKeys' = preEventKeys \ {key}
    /\ awaitingExecute' = (awaitingExecute /\ op # "execute")
    /\ UNCHANGED <<composerVars, entityVars, wiringVars, files, dirs, now, cacheVersion, repoCache, fileWatcher, pendingEvent,
                   handles, inval>>

\* The continuation of execute()/executeByCategory() after the repository call.
CompleteLoad(p, all) ==
    LET op == call[p].op
        arg == call[p].arg
        key == cacheKeyOf(op, arg)
        blocks == IF op = "executeByCategory" THEN loadByCategory(all, arg) ELSE all
        enabledBlocks == SelectSeq(blocks, isEnabled)
    IN /\ cache' = cacheBlocks(cache, key, enabledBlocks, now, cacheVersion)
       /\ lastResult' = [op |-> op, arg |-> arg, blocks |-> enabledBlocks,
                         loadedCount |-> Len(enabledBlocks),
                         errorCount |-> Len(blocks) - Len(enabledBlocks),
                         fromCache |-> FALSE, success |-> FALSE, source |-> ""]
       /\ staleKeys' = IF p \in inval THEN staleKeys \cup {key} ELSE staleKeys \ {key}
       /\ preEventKeys' = preEventKeys \ {key}

\* The return of a direct repository.loadAll().
CompleteLoadAll(p, all) ==
    /\ lastResult' = [op |-> "loadAll", arg |-> "", blocks |-> all,
                      loadedCount |-> Len(all), errorCount |-> 0, fromCache |-> FALSE,
                      success |-> FALSE, source |-> ""]
    /\ UNCHANGED <<cache, staleKeys, preEventKeys>>

ScanStep(p) ==
    /\ call[p].op \in ScanOps
    /\ LET sp == Reverse(getSearchPaths)
           sourceBlocks == loadBlocksFromDirectory(dirs, files, sp[call[p].idx])
           acc2 == IF sourceBlocks.threw
                   THEN call[p].acc
                   ELSE MapSetAll(call[p].acc, sourceBlocks.blocks)
       IN IF call[p].idx < Len(sp)
          THEN /\ call' = [call EXCEPT ![p].idx = @ + 1, ![p].acc = acc2]
               /\ NoReturn
               /\ UNCHANGED <<cache, inval, abandoned, staleKeys, preEventKeys>>
          ELSE /\ IF call[p].op = "loadAll"
                  THEN CompleteLoadAll(p, acc2)
                  ELSE CompleteLoad(p, acc2)
               /\ call' = [call EXCEPT ![p] = Idle]
               /\ alias' = ""
               /\ served' = NotServed
               /\ inval' = inval \ {p}
               /\ UNCHANGED abandoned
    /\ UNCHANGED <<composerVars, entityVars, wiringVars, files, dirs, now, cacheVersion, repoCache, fileWatcher, pendingEvent,
                   handles, awaitingExecute>>
    /\ UNCHANGED started

LoadAllStart(p) ==
    /\ FreeSlot(p)
    /\ started < MaxCalls
    /\ started' = started + 1
    /\ abandoned' = abandoned \ {p}
    /\ call' = [call EXCEPT ![p] = [op |-> "loadAll", arg |-> "", idx |-> 1, acc |-> <<>>]]
    /\ NoReturn
    /\ UNCHANGED <<composerVars, entityVars, wiringVars, files, dirs, now, cache, cacheVersion, repoCache, fileWatcher, pendingEvent,
                   handles, inval, staleKeys, preEventKeys, awaitingExecute>>

\* invalidateCache() without the call to repository.clearCache().
invalidateCacheKeepsRepositoryMemo ==
    /\ cache' = [k \in CacheKeys |-> <<>>]
    /\ cacheVersion' = cacheVersion + 1
    /\ repoCache' = repoCache

\* The version bumped while the entries stay in the cache.
invalidateCacheKeepsEntries ==
    /\ cache' = cache
    /\ cacheVersion' = cacheVersion + 1
    /\ repoCache' = clearCache

invalidateCache ==
    /\ cache' = [k \in CacheKeys |-> <<>>]
    /\ cacheVersion' = cacheVersion + 1
    /\ repoCache' = clearCache

InvalidateHistory ==
    /\ inval' = inval \cup {p \in Callers : \/ call[p].op \in LoadOps /\ call[p].idx > 1
                                            \/ call[p].op \in NameOps /\ call[p].acc # <<>>}
    /\ staleKeys' = {}
    /\ preEventKeys' = {}
    /\ awaitingExecute' = TRUE
    /\ NoReturn

InvalidateCacheBody ==
    /\ invalidateCache
    /\ InvalidateHistory
    /\ UNCHANGED <<composerVars, entityVars, wiringVars, files, dirs, now, fileWatcher, pendingEvent, handles, call, abandoned, started>>

\* invalidateCache() made to wait until no load is in flight.
InvalidateCacheWaitsForLoads ==
    /\ cacheVersion < MaxVersion
    /\ \A p \in Callers : call[p].op = "none"
    /\ InvalidateCacheBody

InvalidateCache ==
    /\ cacheVersion < MaxVersion
    /\ InvalidateCacheBody

EnableHotReload ==
    /\ \E h \in 1..MaxWatchers :
          /\ handles[h] = "unissued"
          /\ \A g \in 1..(h - 1) : handles[g] # "unissued"
          /\ fileWatcher' = h
          /\ handles' = [handles EXCEPT ![h] = "active"]
    /\ pendingEvent' = FALSE
    /\ NoReturn
    /\ UNCHANGED <<composerVars, entityVars, wiringVars, files, dirs, now, cache, cacheVersion, repoCache, call, inval, abandoned,
                   staleKeys, preEventKeys, awaitingExecute>>
    /\ UNCHANGED started

StopHotReload(h) ==
    /\ handles[h] # "unissued"
    /\ cacheVersion < MaxVersion
    /\ invalidateCache
    /\ InvalidateHistory
    /\ fileWatcher' = 0
    /\ pendingEvent' = FALSE
    /\ handles' = [handles EXCEPT ![h] = "called"]
    /\ UNCHANGED <<composerVars, entityVars, wiringVars, files, dirs, now, call, abandoned>>
    /\ UNCHANGED started

\* A direct repository.watchForChanges(): the watcher in place is disposed, a
\* new one is created and a dispose function is returned.
WatchForChanges ==
    /\ \E h \in 1..MaxHandles :
          /\ handles[h] = "unissued"
          /\ \A g \in 1..(h - 1) : handles[g] # "unissued"
          /\ fileWatcher' = h
          /\ handles' = [handles EXCEPT ![h] = "active"]
    /\ pendingEvent' = FALSE
    /\ NoReturn
    /\ UNCHANGED <<composerVars, entityVars, wiringVars, files, dirs, now, cache, cacheVersion, repoCache, call, inval,
                   abandoned, staleKeys, preEventKeys, awaitingExecute, started>>

\* A call of the function watchForChanges() returned as its h-th handle: it
\* disposes whatever watcher this.fileWatcher holds at the time of the call.
StopWatching(h) ==
    /\ handles[h] # "unissued"
    /\ fileWatcher' = 0
    /\ pendingEvent' = FALSE
    /\ handles' = [handles EXCEPT ![h] = "called"]
    /\ NoReturn
    /\ UNCHANGED <<composerVars, entityVars, wiringVars, files, dirs, now, cache, cacheVersion, repoCache, call, inval,
                   abandoned, staleKeys, preEventKeys, awaitingExecute, started>>

HotReloadEnabled == \E h \in 1..MaxWatchers : handles[h] = "active"

FileChange(s, n, c) ==
    /\ files[s][n] # c
    /\ files' = [files EXCEPT ![s][n] = c]
    /\ UNCHANGED <<composerVars, entityVars, wiringVars, dirs>>
    /\ pendingEvent' = (pendingEvent \/ fileWatcher # 0)
    /\ NoReturn
    /\ UNCHANGED <<now, cache, cacheVersion, repoCache, fileWatcher, handles, call,
                   inval, abandoned, staleKeys, preEventKeys, awaitingExecute>>
    /\ UNCHANGED started

\* A direct repository.clearCache().
ClearCache ==
    /\ repoCache' = clearCache
    /\ inval' = inval \cup {p \in Callers : call[p].op \in NameOps /\ call[p].acc # <<>>}
    /\ NoReturn
    /\ UNCHANGED <<composerVars, entityVars, wiringVars, files, dirs, now, cache, cacheVersion, fileWatcher, pendingEvent, handles,
                   call, abandoned, staleKeys, preEventKeys, awaitingExecute,
                   started>>

WatcherNotify ==
    /\ pendingEvent
    /\ fileWatcher # 0
    /\ repoCache' = clearCache
    /\ inval' = inval \cup {p \in Callers : call[p].op \in NameOps /\ call[p].acc # <<>>}
    /\ pendingEvent' = FALSE
    /\ preEventKeys' = IF HotReloadEnabled
                       THEN preEventKeys \cup {k \in CacheKeys : cache[k] # <<>>}
                       ELSE preEventKeys
    /\ NoReturn
    /\ UNCHANGED <<composerVars, entityVars, wiringVars, files, dirs, now, cache, cacheVersion, fileWatcher, handles, call,
                   abandoned, staleKeys, awaitingExecute>>
    /\ UNCHANGED started

Tick ==
    /\ now < MaxNow
    /\ now' = now + TickMs
    /\ NoReturn
    /\ UNCHANGED <<composerVars, entityVars, wiringVars, files, dirs, cache, cacheVersion, repoCache, fileWatcher, pendingEvent,
                   handles, call, inval, abandoned, staleKeys, preEventKeys,
                   awaitingExecute, started>>

\* What a by-name call hands its caller for the repository result r:
\* loadByName() the result itself, executeByName() the block when the result
\* is a success and the block is enabled, else null (no block).
byNameReturn(op, n, r) ==
    IF op = "loadByName"
    THEN [op |-> op, arg |-> n, blocks |-> IF r.success THEN <<r.block>> ELSE <<>>,
          loadedCount |-> 0, errorCount |-> 0, fromCache |-> FALSE,
          success |-> r.success, source |-> r.source]
    ELSE [op |-> op, arg |-> n,
          blocks |-> IF r.success /\ isEnabled(r.block) THEN <<r.block>> ELSE <<>>,
          loadedCount |-> 0, errorCount |-> 0, fromCache |-> FALSE,
          success |-> FALSE, source |-> ""]

\* loadByName() up to its first file-system access, called directly
\* (op = "loadByName") or by executeByName().
LoadByNameBegin(p, op, n) ==
    /\ FreeSlot(p)
    /\ started < MaxCalls
    /\ started' = started + 1
    /\ abandoned' = abandoned \ {p}
    /\ IF ~matchesNameFormat(n)
       THEN /\ lastResult' = byNameReturn(op, n, [success |-> FALSE, block |-> NoBlock,
                                                  source |-> "workspace"])
            /\ alias' = ""
            /\ served' = NotServed
            /\ UNCHANGED <<repoCache, call>>
       ELSE LET cached == getCachedBlock(repoCache, n, now)
            IN IF cached # <<>>
               THEN /\ lastResult' = byNameReturn(op, n, [success |-> TRUE,
                                                          block |-> cached[1].block,
                                                          source |-> cached[1].source])
                    /\ alias' = ""
                    /\ served' = NotServed
                    /\ UNCHANGED <<repoCache, call>>
               ELSE /\ repoCache' = [repoCache EXCEPT ![n] = <<>>]
                    /\ call' = [call EXCEPT ![p] = [op |-> op, arg |-> n,
                                                    idx |-> 1, acc |-> <<>>]]
                    /\ NoReturn
    /\ UNCHANGED <<composerVars, entityVars, wiringVars, files, dirs, now, cache, cacheVersion, fileWatcher, pendingEvent, handles,
                   inval, staleKeys, preEventKeys, awaitingExecute>>

LoadByNameStart(p, n) == LoadByNameBegin(p, "loadByName", n)

\* loadByName() from one await to the next: the existence test of the next
\* search path, the read of the file found there (its result, acc, is held
\* until the call resumes), and the resumption that memoizes and returns.
LoadByNameStep(p) ==
    /\ call[p].op \in NameOps
    /\ LET s == getSearchPaths[call[p].idx]
           n == call[p].arg
       IN IF call[p].acc # <<>>
          THEN LET r == call[p].acc[1]
               IN /\ call' = [call EXCEPT ![p] = Idle]
                  /\ repoCache' = IF r.success
                                  THEN cacheBlock(repoCache, n, r.block, now, filePath(s, n))
                                  ELSE repoCache
                  /\ lastResult' = byNameReturn(call[p].op, n, r)
                  /\ alias' = ""
                  /\ served' = NotServed
                  /\ inval' = inval \ {p}
          ELSE IF files[s][n].kind # "absent"
          THEN /\ call' = [call EXCEPT ![p].acc = <<loadBlockFromFile(files, s, n)>>]
               /\ NoReturn
               /\ UNCHANGED <<repoCache, inval>>
          ELSE IF call[p].idx < Len(getSearchPaths)
          THEN /\ call' = [call EXCEPT ![p].idx = @ + 1]
               /\ NoReturn
               /\ UNCHANGED <<repoCache, inval>>
          ELSE /\ call' = [call EXCEPT ![p] = Idle]
               /\ lastResult' = byNameReturn(call[p].op, n,
                                   [success |-> FALSE, block |-> NoBlock,
                                    source |-> "workspace"])
               /\ alias' = ""
               /\ served' = NotServed
               /\ UNCHANGED <<repoCache, inval>>
    /\ UNCHANGED <<composerVars, entityVars, wiringVars, files, dirs, now, cache, cacheVersion, fileWatcher, pendingEvent, handles,
                   abandoned, staleKeys, preEventKeys, awaitingExecute>>
    /\ UNCHANGED started

\* The caller of an in-flight load stops awaiting it (the promise has no cancel).
Abandon(p) ==
    /\ call[p].op \in LoadOps
    /\ p \notin abandoned
    /\ abandoned' = abandoned \cup {p}
    /\ NoReturn
    /\ UNCHANGED <<composerVars, entityVars, wiringVars, files, dirs, now, cache, cacheVersion, repoCache, fileWatcher, pendingEvent,
                   handles, call, inval, staleKeys, preEventKeys, awaitingExecute,
                   started>>

\* The caller removes the last element of the list it was last handed.
MutateResult ==
    /\ lastResult.op \in LoadOps
    /\ lastResult.blocks # <<>>
    /\ LET b == SubSeq(lastResult.blocks, 1, Len(lastResult.blocks) - 1)
       IN cache' = IF alias # "" THEN [cache EXCEPT ![alias][1].blocks = b] ELSE cache
    /\ NoReturn
    /\ UNCHANGED <<composerVars, entityVars, wiringVars, files, dirs, now, cacheVersion, repoCache, fileWatcher, pendingEvent,
                   handles, call, inval, abandoned, staleKeys, preEventKeys,
                   awaitingExecute>>
    /\ UNCHANGED started

\* ------------------------------------------------------- specifications
\* ------------------------------------------------------------ composer
\* Text is a sequence of characters; a block body is written with one token
\* standing for its words.
Whitespace == {" ", "\n"}

RECURSIVE trimStart(_)
trimStart(s) ==
    IF s # <<>> /\ Head(s) \in Whitespace THEN trimStart(Tail(s)) ELSE s

RECURSIVE trimEnd(_)
trimEnd(s) ==
    IF s # <<>> /\ s[Len(s)] \in Whitespace THEN trimEnd(SubSeq(s, 1, Len(s) - 1)) ELSE s

trim(s) == trimEnd(trimStart(s))

\* The blocks that can be activated: three of one category, two of them of
\* equal priority, and one of another category. PromptBlock.create has trimmed
\* their bodies.
ComposerBlocks ==
    {[name |-> "a", category |-> "analysis", priority |-> 50, prompt |-> <<"A">>,
      variables |-> <<>>],
     [name |-> "b", category |-> "analysis", priority |-> 50, prompt |-> <<"B">>,
      variables |-> <<>>],
     [name |-> "c", category |-> "analysis", priority |-> 80, prompt |-> <<"C">>,
      variables |-> <<>>],
     [name |-> "v", category |-> "visualization", priority |-> 90, prompt |-> <<"V">>,
      variables |-> <<>>]}

\* A block that declares two variables, n without a default and d with the
\* default "D", and uses n twice in its body.
TemplateBlock ==
    [name |-> "t", category |-> "reporting", priority |-> 50,
     prompt |-> <<"{", "{", "n", "}", "}", " ", "T", "{", "{", "d", "}", "}",
                  "{", "{", "n", "}", "}">>,
     variables |-> <<[name |-> <<"n">>, description |-> <<>>, required |-> TRUE,
                      defaultValue |-> <<>>],
                     [name |-> <<"d">>, description |-> <<>>, required |-> FALSE,
                      defaultValue |-> <<<<"D">>>>]>>]

\* The variables argument of createActivePrompt: the entries <<name, value>>
\* of the object, <<>> when it is absent or empty. A value can be "".
VariableMaps ==
    {n \o d : n \in {<<>>, <<<<<<"n">>, <<>>>>>>, <<<<<<"n">>, <<"N">>>>>>},
              d \in {<<>>, <<<<<<"d">>, <<>>>>>>, <<<<<<"d">>, <<"E">>>>>>}}

\* priority ?? block.priority; the blocks of ComposerBlocks declare no
\* variables and are activated with none.
createActivePrompt(block, variables, priority) ==
    [block |-> block, variables |-> variables,
     priority |-> IF priority # <<>> THEN priority[1] ELSE block.priority]

\* The priority argument of createActivePrompt is absent, or a number.
ActivePromptConfigs ==
    {createActivePrompt(b, <<>>, o) : b \in ComposerBlocks, o \in {<<>>, <<90>>}}

RECURSIVE ListsUpTo(_, _)
ListsUpTo(S, n) ==
    IF n = 0 THEN {<<>>}
    ELSE LET shorter == ListsUpTo(S, n - 1)
         IN shorter \cup {Append(l, x) : l \in {m \in shorter : Len(m) = n - 1}, x \in S}

OriginalPrompt == <<" ", "S", "\n">>

\* The comparator with the operands swapped: lower priority first.
byPriorityAscending(a, b) == a.priority - b.priority

\* (a, b) => b.priority! - a.priority!
byPriorityDescending(a, b) == b.priority - a.priority

\* Array.prototype.sort is stable: an element goes before the first element
\* the comparator puts strictly after it, and after every other one.
insertStable(sorted, x) ==
    LET after == {i \in 1..Len(sorted) : byPriorityDescending(sorted[i], x) > 0}
        k == IF after = {} THEN Len(sorted) + 1
             ELSE CHOOSE i \in after : \A j \in after : i <= j
    IN SubSeq(sorted, 1, k - 1) \o <<x>> \o SubSeq(sorted, k, Len(sorted))

RECURSIVE sortStable(_)
sortStable(s) ==
    IF s = <<>> THEN <<>>
    ELSE insertStable(sortStable(SubSeq(s, 1, Len(s) - 1)), s[Len(s)])

\* The keys of categoryMap in insertion order.
RECURSIVE categoriesInOrder(_)
categoriesInOrder(prompts) ==
    IF prompts = <<>> THEN <<>>
    ELSE LET before == categoriesInOrder(SubSeq(prompts, 1, Len(prompts) - 1))
             category == prompts[Len(prompts)].block.category
         IN IF \E i \in 1..Len(before) : before[i] = category
            THEN before ELSE Append(before, category)

categoryGroup(prompts, category) ==
    SelectSeq(prompts, LAMBDA c : c.block.category = category)

\* Only the first of the losing configs.
conflictedFirstOnly(sortedByPriority) == SubSeq(sortedByPriority, 2, 2)

\* sortedByPriority.slice(1)
conflicted(sortedByPriority) == SubSeq(sortedByPriority, 2, Len(sortedByPriority))

resolveCategory(category, prompts) ==
    IF Len(prompts) = 1
    THEN [resolvedPrompts |-> <<prompts[1]>>, conflicts |-> <<>>]
    ELSE LET sortedByPriority == sortStable(prompts)
             selected == sortedByPriority[1]
             losers == conflicted(sortedByPriority)
         IN [resolvedPrompts |-> <<selected>>,
             conflicts |-> [i \in 1..Len(losers) |->
                              [category |-> category,
                               previousBlock |-> losers[i].block.name,
                               selectedBlock |-> selected.block.name,
                               reason |-> <<selected.priority, losers[i].priority>>]]]

RECURSIVE resolveCategories(_, _)
resolveCategories(categories, prompts) ==
    IF categories = <<>> THEN [resolvedPrompts |-> <<>>, conflicts |-> <<>>]
    ELSE LET first == resolveCategory(Head(categories),
                                      categoryGroup(prompts, Head(categories)))
             rest == resolveCategories(Tail(categories), prompts)
         IN [resolvedPrompts |-> first.resolvedPrompts \o rest.resolvedPrompts,
             conflicts |-> first.conflicts \o rest.conflicts]

resolveConflicts(prompts) == resolveCategories(categoriesInOrder(prompts), prompts)

\* The in-place sort applied to the caller's array instead of a category's.
arraysAfterResolveSortsInput(prompts) ==
    [activePrompts |-> sortStable(prompts), categoryMap |-> <<>>]

\* The arrays resolveConflicts() leaves behind. It only reads the caller's
\* array; the arrays of categoryMap it allocates itself, fills by push and,
\* where they hold two configs or more, sorts in place (sort() reorders the
\* array it is called on). No statement assigns to a field of a config or of
\* a block.
arraysAfterResolve(prompts) ==
    [activePrompts |-> prompts,
     categoryMap |->
        LET categories == categoriesInOrder(prompts)
        IN [i \in DOMAIN categories |->
                LET group == categoryGroup(prompts, categories[i])
                IN IF Len(group) = 1 THEN group ELSE sortStable(group)]]

\* The survivors left in the order resolveConflicts produced them.
sortByPrioritySkipped(prompts) == prompts

sortByPriority(prompts) == sortStable(prompts)

\* variableValues?.[name]: <<>> when there is no entry, else <<the value>>.
valueOf(variableValues, name) ==
    LET entries == SelectSeq(variableValues, LAMBDA e : e[1] = name)
    IN IF entries = <<>> THEN <<>> ELSE <<entries[1][2]>>

\* variableValues?.[variable.name] || variable.defaultValue || "": the empty
\* string is falsy, like undefined.
substitutedValue(variable, variableValues) ==
    LET supplied == valueOf(variableValues, variable.name)
    IN IF supplied # <<>> /\ supplied[1] # <<>> THEN supplied[1]
       ELSE IF variable.defaultValue # <<>> /\ variable.defaultValue[1] # <<>>
            THEN variable.defaultValue[1]
       ELSE <<>>

\* `{{${variable.name}}}`
placeholder(name) == <<"{", "{">> \o name \o <<"}", "}">>

\* text.replace(new RegExp(pattern, "g"), value) for a pattern that is a
\* literal text and a value without "$": every match, left to right.
RECURSIVE replaceAll(_, _, _)
replaceAll(text, pattern, value) ==
    IF Len(text) < Len(pattern) THEN text
    ELSE IF SubSeq(text, 1, Len(pattern)) = pattern
         THEN value \o replaceAll(SubSeq(text, Len(pattern) + 1, Len(text)), pattern, value)
    ELSE <<Head(text)>> \o replaceAll(Tail(text), pattern, value)

RECURSIVE replaceVariables(_, _, _)
replaceVariables(resolvedPrompt, variables, variableValues) ==
    IF variables = <<>> THEN resolvedPrompt
    ELSE replaceVariables(
            replaceAll(resolvedPrompt, placeholder(Head(variables).name),
                       substitutedValue(Head(variables), variableValues)),
            Tail(variables), variableValues)

resolvePrompt(block, variableValues) ==
    IF ~(Len(block.variables) > 0) THEN block.prompt
    ELSE replaceVariables(block.prompt, block.variables, variableValues)

RECURSIVE appendPrompts(_, _)
appendPrompts(enhanced, sortedPrompts) ==
    IF sortedPrompts = <<>> THEN enhanced
    ELSE appendPrompts(
            enhanced \o <<"\n", "\n">>
                \o trim(resolvePrompt(Head(sortedPrompts).block, Head(sortedPrompts).variables)),
            Tail(sortedPrompts))

\* The original prompt trimmed whether or not there is a survivor.
concatenatePromptsAlwaysTrims(originalPrompt, sortedPrompts) ==
    appendPrompts(trim(originalPrompt), sortedPrompts)

concatenatePrompts(originalPrompt, sortedPrompts) ==
    IF Len(sortedPrompts) = 0 THEN originalPrompt
    ELSE appendPrompts(trim(originalPrompt), sortedPrompts)

execute(originalPrompt, prompts) ==
    LET resolved == resolveConflicts(prompts)
        sortedPrompts == sortByPriority(resolved.resolvedPrompts)
        enhancedPrompt == concatenatePrompts(originalPrompt, sortedPrompts)
    IN [originalPrompt |-> originalPrompt,
        enhancedPrompt |-> enhancedPrompt,
        appliedPrompts |-> sortedPrompts,
        conflictResolution |-> resolved.conflicts,
        totalLength |-> Len(enhancedPrompt),
        addedLength |-> Len(enhancedPrompt) - Len(originalPrompt)]

loaderVars == <<files, dirs, now, cache, cacheVersion, repoCache, fileWatcher, pendingEvent,
                handles, call, lastResult, alias, inval, abandoned, staleKeys,
                preEventKeys, awaitingExecute, served, started>>

\* enhanceUseCase.execute(systemPrompt, activePromptConfigs)
\* sortByPriority() sorts a copy ([...prompts]) and concatenatePrompts() only
\* reads, so the caller's array is as resolveConflicts() left it.
ComposerExecute ==
    /\ result' = <<execute(systemPrompt, activePrompts)>>
    /\ activePrompts' = arraysAfterResolve(activePrompts).activePrompts
    /\ UNCHANGED <<systemPrompt, summary, loaderVars, entityVars, wiringVars>>

\* getCategoryDisplayName(category) is CATEGORY_DISPLAY_NAMES[category].
CATEGORY_DISPLAY_NAMES ==
    [c \in PromptCategory |->
        CASE c = "analysis" -> "Analysis"
          [] c = "visualization" -> "Visualization"
          [] c = "reporting" -> "Reporting"
          [] c = "methodology" -> "Methodology"]

\* Array.prototype.join: the texts of parts with separator between them.
RECURSIVE join(_, _)
join(parts, separator) ==
    IF parts = <<>> THEN <<>>
    ELSE IF Len(parts) = 1 THEN parts[1]
    ELSE parts[1] \o separator \o join(Tail(parts), separator)

\* The summary built from the activation list as given, conflicts unresolved.
summaryPromptsUnresolved(prompts) == prompts

\* const { resolvedPrompts } = this.resolveConflicts(activePrompts)
summaryPrompts(prompts) == resolveConflicts(prompts).resolvedPrompts

\* The text is a sequence of tokens: a display name, a block name or one of
\* the separators ": ", ", " and " | ".
generatePromptSummary(prompts) ==
    IF Len(prompts) = 0 THEN <<"No active prompt blocks">>
    ELSE LET resolvedPrompts == summaryPrompts(prompts)
             categories == categoriesInOrder(resolvedPrompts)
             names(category) ==
                LET group == categoryGroup(resolvedPrompts, category)
                IN [i \in 1..Len(group) |-> <<group[i].block.name>>]
             parts == [i \in 1..Len(categories) |->
                         <<CATEGORY_DISPLAY_NAMES[categories[i]], ": ">>
                             \o join(names(categories[i]), <<", ">>)]
         IN join(parts, <<" | ">>)

\* enhanceUseCase.generatePromptSummary(activePromptConfigs)
ComposerSummary ==
    /\ summary' = <<generatePromptSummary(activePrompts)>>
    /\ activePrompts' = IF Len(activePrompts) = 0 THEN activePrompts
                        ELSE arraysAfterResolve(activePrompts).activePrompts
    /\ UNCHANGED <<systemPrompt, result, loaderVars, entityVars, wiringVars>>

ComposerIdle ==
    /\ activePrompts = <<>>
    /\ result = <<>>
    /\ systemPrompt = OriginalPrompt
    /\ summary = <<>>

\* -------------------------------------------------------- PromptBlock
\* A number that is not a number: every comparison with it is false.
NaN == 0 - 1000

lessThan(a, b) == a # NaN /\ b # NaN /\ a < b

\* !text?.trim() for a string
isBlank(text) == trim(text) = <<>>

\* Every name taken for well formed.
nameHasFormatAlways(text) == TRUE

\* data.name.match(/^[a-zA-Z0-9_-]+$/)
nameHasFormat(text) ==
    /\ Len(text) >= 1
    /\ \A i \in 1..Len(text) : text[i] \in NameFormatChars

isValidCategory(category) == category \in PromptCategory

\* The inputs of PromptBlock.create: the three required strings, and each
\* optional field absent (<<>>) or given (<<value>>).
PromptBlockData ==
    [name : {<<"x">>, <<"x", " ", "y">>, <<" ", "x">>, <<" ">>, <<>>},
     description : {<<>>, <<<<" ", "d">>>>},
     category : {"analysis", "reporting", "bogus", ""},
     tags : {<<>>, <<<<"t">>>>},
     prompt : {<<"P">>, <<"P", "\n">>, <<>>},
     variables : {<<>>,
                  <<<<[name |-> <<"n">>, description |-> <<"d">>, required |-> TRUE,
                       defaultValue |-> <<>>]>>>>,
                  <<<<[name |-> <<" ">>, description |-> <<"d">>, required |-> FALSE,
                       defaultValue |-> <<>>]>>>>},
     outputs : {<<>>, <<<<"markdown">>>>},
     priority : {<<>>, <<0>>, <<100>>, <<0 - 1>>, <<101>>, <<NaN>>},
     enabled : {<<>>, <<TRUE>>, <<FALSE>>}]

\* throw new PromptBlockValidationError(message, field)
PromptBlockValidationError(field) == [ok |-> FALSE, field |-> field]

create(d) ==
    IF isBlank(d.name) THEN PromptBlockValidationError("name")
    ELSE IF isBlank(d.prompt) THEN PromptBlockValidationError("prompt")
    ELSE IF d.category = "" THEN PromptBlockValidationError("category")
    ELSE IF ~isValidCategory(d.category) THEN PromptBlockValidationError("category")
    ELSE IF ~nameHasFormat(d.name) THEN PromptBlockValidationError("name")
    ELSE IF d.variables # <<>>
            /\ \E i \in 1..Len(d.variables[1]) : isBlank(d.variables[1][i].name)
         THEN PromptBlockValidationError("variables")
    ELSE LET priority == IF d.priority # <<>> THEN d.priority[1] ELSE 50
         IN IF lessThan(priority, 0) \/ lessThan(100, priority)
            THEN PromptBlockValidationError("priority")
            ELSE [ok |-> TRUE,
                  block |->
                    [name |-> trim(d.name),
                     description |-> IF d.description # <<>> THEN trim(d.description[1])
                                     ELSE <<>>,
                     category |-> d.category,
                     tags |-> IF d.tags # <<>> THEN d.tags[1] ELSE <<>>,
                     prompt |-> trim(d.prompt),
                     variables |-> IF d.variables # <<>> THEN d.variables[1] ELSE <<>>,
                     outputs |-> IF d.outputs # <<>> THEN d.outputs[1] ELSE <<>>,
                     priority |-> priority,
                     enabled |-> IF d.enabled # <<>> THEN d.enabled[1] ELSE TRUE]]

getRequiredVariables(block) == SelectSeq(block.variables, LAMBDA v : v.required)

hasTag(block, tag) == \E i \in 1..Len(block.tags) : block.tags[i] = tag

\* `${this.category}:${this.name}`
getId(block) == <<block.category, ":">> \o block.name

toData(block) ==
    [name |-> block.name,
     description |-> <<block.description>>,
     category |-> block.category,
     tags |-> <<block.tags>>,
     prompt |-> block.prompt,
     variables |-> <<block.variables>>,
     outputs |-> <<block.outputs>>,
     priority |-> <<block.priority>>,
     enabled |-> <<block.enabled>>]

withEnabled(block, enabled) == [block EXCEPT !.enabled = enabled]

\* The enabled field of the block itself assigned, and the block returned.
withEnabledInPlace(all, self, enabled) ==
    [instances |-> [all EXCEPT ![self] = withEnabled(all[self], enabled)],
     value |-> self]

\* new PromptBlock(...): one more instance, which is the value returned.
withEnabledInstance(all, self, enabled) ==
    [instances |-> Append(all, withEnabled(all[self], enabled)),
     value |-> Len(all) + 1]

NoOutcome == [op |-> "none", self |-> 0, arg |-> <<>>, threw |-> <<>>, value |-> <<>>]

Returned(op, self, arg, value) ==
    [op |-> op, self |-> self, arg |-> arg, threw |-> <<>>, value |-> value]

\* PromptBlock.create(data)
Create ==
    /\ Len(instances) < MaxInstances
    /\ LET made == create(data)
       IN IF made.ok
          THEN /\ instances' = Append(instances, made.block)
               /\ outcome' = Returned("create", 0, <<>>, Len(instances) + 1)
          ELSE /\ instances' = instances
               /\ outcome' = [op |-> "create", self |-> 0, arg |-> <<>>,
                              threw |-> <<made.field>>, value |-> <<>>]
    /\ UNCHANGED <<data, rawData, validation, composerVars, loaderVars, wiringVars>>

\* block.withEnabled(enabled)
WithEnabled(self, enabled) ==
    /\ self \in 1..Len(instances)
    /\ Len(instances) < MaxInstances
    /\ LET after == withEnabledInstance(instances, self, enabled)
       IN /\ instances' = after.instances
          /\ outcome' = Returned("withEnabled", self, <<enabled>>, after.value)
    /\ UNCHANGED <<data, rawData, validation, composerVars, loaderVars, wiringVars>>

\* The operations that only read the block (toData, resolvePrompt, hasTag,
\* getRequiredVariables, getId): op returns value.
Query(self, op, arg, value) ==
    /\ self \in 1..Len(instances)
    /\ outcome' = Returned(op, self, arg, value)
    /\ UNCHANGED <<instances, data, rawData, validation, composerVars, loaderVars, wiringVars>>

\* ------------------------------------------------ YamlPromptBlockParser
\* A value as yaml.parse produces it: its typeof (with "null", "list" and
\* "undefined" for a missing key told apart) and its content.
Value(type, text, number, items) ==
    [type |-> type, text |-> text, number |-> number, items |-> items]

Undefined == Value("undefined", <<>>, 0, <<>>)
Str(text) == Value("string", text, 0, <<>>)
Num(number) == Value("number", <<>>, number, <<>>)
Items(items) == Value("list", <<>>, 0, items)

\* An element of variables that is an object, with its keys.
VariableObject(name) ==
    [type |-> "object", name |-> name, description |-> Str(<<"d">>),
     required |-> Value("boolean", <<>>, 1, <<>>), defaultValue |-> Undefined]

\* The maps handed to validate: each key missing, well typed or of another
\* type. The text of a category is written as one token.
RawInputs ==
    [name : {Undefined, Value("null", <<>>, 0, <<>>), Str(<<"x">>), Str(<<"x", " ", "y">>),
             Num(5), Items(<<>>)},
     prompt : {Undefined, Str(<<"P">>), Str(<<"P", "P">>), Num(5)},
     category : {Undefined, Str(<<"analysis">>), Str(<<"bogus">>), Value("boolean", <<>>, 1, <<>>)},
     priority : {Undefined, Num(50), Num(101), Str(<<"5">>)},
     tags : {Undefined, Items(<<Str(<<"t">>)>>), Num(5)},
     variables : {Undefined, Items(<<VariableObject(Str(<<"n">>))>>),
                  Items(<<Num(5), VariableObject(Undefined)>>), Num(5)},
     description : {Undefined, Str(<<"d">>), Num(5)}]

getDefaultOptions ==
    [strict |-> FALSE, requireDescription |-> FALSE, requireTags |-> FALSE,
     maxPromptLength |-> 10000]

\* value?.trim(): undefined for undefined and null, the trimmed text for a
\* string, and a TypeError for every other value, which has no trim method.
trimThrows(value) == value.type \notin {"undefined", "null", "string"}

\* !value?.trim(), when it does not throw
trimIsEmpty(value) == value.type # "string" \/ trim(value.text) = <<>>

\* The truthiness of a value.
truthy(value) ==
    CASE value.type \in {"undefined", "null"} -> FALSE
      [] value.type = "string" -> value.text # <<>>
      [] value.type = "number" -> value.number # 0 /\ value.number # NaN
      [] OTHER -> TRUE

ValidationError(field, index, code) == [field |-> field, index |-> index, code |-> code]

ValidationWarning(field) == [field |-> field]

validateVariables(variables) ==
    LET item(variable, index) ==
    IF variable.type # "object"
    THEN <<ValidationError("variables[]", index, "INVALID_ARRAY_ITEM_TYPE")>>
    ELSE (IF ~truthy(variable.name) \/ variable.name.type # "string"
          THEN <<ValidationError("variables[].name", index, "INVALID_VARIABLE_NAME")>>
          ELSE <<>>)
         \o (IF variable.description.type \notin {"undefined", "string"}
             THEN <<ValidationError("variables[].description", index, "INVALID_FIELD_TYPE")>>
             ELSE <<>>)
         \o (IF variable.required.type \notin {"undefined", "boolean"}
             THEN <<ValidationError("variables[].required", index, "INVALID_FIELD_TYPE")>>
             ELSE <<>>)
         \o (IF variable.defaultValue.type \notin {"undefined", "string"}
             THEN <<ValidationError("variables[].defaultValue", index, "INVALID_FIELD_TYPE")>>
             ELSE <<>>)
    IN IF variables.type # "list"
       THEN <<ValidationError("variables", 0, "INVALID_FIELD_TYPE")>>
       ELSE join([i \in 1..Len(variables.items) |-> item(variables.items[i], i - 1)],
                 <<>>)

Thrown == [threw |-> TRUE, isValid |-> FALSE, errors |-> <<>>, warnings |-> <<>>]

validate(d, opts) ==
    IF trimThrows(d.name) \/ trimThrows(d.prompt) \/ trimThrows(d.category) THEN Thrown
    ELSE IF opts.requireDescription /\ trimThrows(d.description) THEN Thrown
    ELSE
        LET tooLong == truthy(d.prompt) /\ Len(d.prompt.text) > opts.maxPromptLength
            errors ==
                (IF trimIsEmpty(d.name)
                 THEN <<ValidationError("name", 0, "REQUIRED_FIELD_MISSING")>> ELSE <<>>)
                \o (IF trimIsEmpty(d.prompt)
                    THEN <<ValidationError("prompt", 0, "REQUIRED_FIELD_MISSING")>> ELSE <<>>)
                \o (IF trimIsEmpty(d.category)
                    THEN <<ValidationError("category", 0, "REQUIRED_FIELD_MISSING")>>
                    ELSE <<>>)
                \o (IF truthy(d.name) /\ ~nameHasFormat(d.name.text)
                    THEN <<ValidationError("name", 0, "INVALID_NAME_FORMAT")>> ELSE <<>>)
                \o (IF truthy(d.category)
                       /\ (Len(d.category.text) # 1 \/ ~isValidCategory(d.category.text[1]))
                    THEN <<ValidationError("category", 0, "INVALID_CATEGORY")>> ELSE <<>>)
                \o (IF d.priority.type # "undefined"
                       /\ (\/ d.priority.type # "number"
                           \/ lessThan(d.priority.number, 0)
                           \/ lessThan(100, d.priority.number))
                    THEN <<ValidationError("priority", 0, "INVALID_PRIORITY_RANGE")>>
                    ELSE <<>>)
                \o (IF tooLong /\ opts.strict
                    THEN <<ValidationError("prompt", 0, "PROMPT_TOO_LONG")>> ELSE <<>>)
                \o (IF truthy(d.variables) THEN validateVariables(d.variables) ELSE <<>>)
            warnings ==
                (IF opts.requireDescription /\ trimIsEmpty(d.description)
                 THEN <<ValidationWarning("description")>> ELSE <<>>)
                \o (IF opts.requireTags
                       /\ (~truthy(d.tags) \/ (d.tags.type = "list" /\ d.tags.items = <<>>))
                    THEN <<ValidationWarning("tags")>> ELSE <<>>)
                \o (IF tooLong /\ ~opts.strict
                    THEN <<ValidationWarning("prompt")>> ELSE <<>>)
        IN [threw |-> FALSE, isValid |-> Len(errors) = 0, errors |-> errors,
            warnings |-> warnings]

\* parser.validate(rawData, options)
Validate(opts) ==
    /\ validation' = <<validate(rawData, opts)>>
    /\ UNCHANGED <<rawData, data, instances, outcome, composerVars, loaderVars, wiringVars>>

NoData ==
    [name |-> <<>>, description |-> <<>>, category |-> "", tags |-> <<>>,
     prompt |-> <<>>, variables |-> <<>>, outputs |-> <<>>, priority |-> <<>>,
     enabled |-> <<>>]

EntityIdle ==
    /\ data = NoData
    /\ instances = <<>>
    /\ outcome = NoOutcome
    /\ rawData = [key \in {"name", "prompt", "category", "priority", "tags",
                            "variables", "description"} |-> Undefined]
    /\ validation = <<>>

InitCorpus ==
    [s \in Sources |-> [n \in Names |->
        CASE s = "workspace" /\ n = "x" -> Good("analysis", TRUE, 1)
          [] s = "defaults" /\ n = "x" -> Good("analysis", TRUE, 2)
          [] s = "defaults" /\ n = "y" -> Good("visualization", TRUE, 1)
          [] s = "global" /\ n = "z" -> Good("analysis", FALSE, 1)
          [] OTHER -> Absent]]

EditContents == {Absent, Good("visualization", TRUE, 1)}

InitState ==
    /\ now = 0
    /\ cache = [k \in CacheKeys |-> <<>>]
    /\ cacheVersion = 0
    /\ repoCache = [n \in Names |-> <<>>]
    /\ fileWatcher = 0
    /\ pendingEvent = FALSE
    /\ handles = [h \in 1..MaxHandles |-> "unissued"]
    /\ call = [p \in Callers |-> Idle]
    /\ lastResult = NoResult
    /\ alias = ""
    /\ inval = {}
    /\ abandoned = {}
    /\ staleKeys = {}
    /\ preEventKeys = {}
    /\ awaitingExecute = FALSE
    /\ served = NotServed
    /\ started = 0
    /\ factory = [loadPromptBlocksUseCase |-> <<>>, enhanceSystemPromptUseCase |-> 0,
                  repository |-> 0]
    /\ returned = <<>>
    /\ activeBlocks = <<>>
    /\ renderedBlocks = <<>>

Init == files = InitCorpus /\ dirs = AllReadable /\ InitState /\ ComposerIdle /\ EntityIdle

Next ==
    \/ Tick
    \/ \E p \in Callers : ExecuteStart(p, "execute", "")
    \/ \E p \in Callers : \E c \in CategoryInputs : ExecuteStart(p, "executeByCategory", c)
    \/ \E p \in Callers : ScanStep(p)
    \/ InvalidateCache
    \/ EnableHotReload
    \/ \E h \in 1..MaxWatchers : StopHotReload(h)
    \/ \E c \in EditContents : FileChange("defaults", "y", c)
    \/ WatcherNotify
    \/ \E p \in Callers : LoadByNameStart(p, "x")
    \/ \E p \in Callers : LoadByNameStep(p)
    \/ MutateResult

Spec == Init /\ [][Next]_vars

\* Loads (use case and repository), invalidation and the watcher only.
LoadNext ==
    \/ \E p \in Callers : ExecuteStart(p, "execute", "")
    \/ \E p \in Callers : ScanStep(p)
    \/ InvalidateCache
    \/ EnableHotReload
    \/ \E c \in EditContents : FileChange("defaults", "y", c)
    \/ WatcherNotify
    \/ \E p \in Callers : LoadByNameStart(p, "x")
    \/ \E p \in Callers : LoadByNameStep(p)

LoadSpec == Init /\ [][LoadNext]_vars

\* Loads whose callers may stop awaiting them, with the repository's I/O
\* completing: a directory read that is pending is eventually answered.
FairNext ==
    \/ \E p \in Callers : ExecuteStart(p, "execute", "")
    \/ \E p \in Callers : \E c \in CategoryInputs : ExecuteStart(p, "executeByCategory", c)
    \/ \E p \in Callers : ScanStep(p)
    \/ \E p \in Callers : Abandon(p)
    \/ InvalidateCache

FairSpec == Init /\ [][FairNext]_vars /\ \A p \in Callers : WF_vars(ScanStep(p))

\* ---------------------------------------------------- PromptBlocksFactory
\* Objects are told apart by the number given to them at construction; a
\* LoadPromptBlocks instance carries the repository it was constructed with.
MaxFactoryCalls == 5

createRepository(f, fresh) ==
    IF f.repository = 0 THEN [f EXCEPT !.repository = fresh] ELSE f

CreateRepository ==
    /\ Len(returned) < MaxFactoryCalls
    /\ factory' = createRepository(factory, 2 * Len(returned) + 1)
    /\ returned' = Append(returned, [call |-> "createRepository",
                                     id |-> factory'.repository,
                                     repository |-> factory'.repository])
    /\ UNCHANGED <<loaderVars, composerVars, entityVars, activeBlocks, renderedBlocks>>

CreateLoadPromptBlocks ==
    /\ Len(returned) < MaxFactoryCalls
    /\ factory' =
          IF factory.loadPromptBlocksUseCase = <<>>
          THEN LET wired == createRepository(factory, 2 * Len(returned) + 1)
               IN [wired EXCEPT !.loadPromptBlocksUseCase =
                        <<[id |-> 2 * Len(returned) + 2, repository |-> wired.repository]>>]
          ELSE factory
    /\ returned' = Append(returned, [call |-> "createLoadPromptBlocks",
                                     id |-> factory'.loadPromptBlocksUseCase[1].id,
                                     repository |->
                                        factory'.loadPromptBlocksUseCase[1].repository])
    /\ UNCHANGED <<loaderVars, composerVars, entityVars, activeBlocks, renderedBlocks>>

\* An EnhanceSystemPrompt instance holds no repository (repository 0).
CreateEnhanceSystemPrompt ==
    /\ Len(returned) < MaxFactoryCalls
    /\ factory' = IF factory.enhanceSystemPromptUseCase = 0
                  THEN [factory EXCEPT !.enhanceSystemPromptUseCase = 2 * Len(returned) + 1]
                  ELSE factory
    /\ returned' = Append(returned, [call |-> "createEnhanceSystemPrompt",
                                     id |-> factory'.enhanceSystemPromptUseCase,
                                     repository |-> 0])
    /\ UNCHANGED <<loaderVars, composerVars, entityVars, activeBlocks, renderedBlocks>>

Reset ==
    /\ factory' = [loadPromptBlocksUseCase |-> <<>>, enhanceSystemPromptUseCase |-> 0,
                   repository |-> 0]
    /\ UNCHANGED <<loaderVars, composerVars, entityVars, returned, activeBlocks,
                   renderedBlocks>>

\* ---------------------------------------------------- PromptBlocksProvider
\* The webview's active-block state. availableBlocks holds ComposerBlocks. A
\* state update is a function of the previous state and is queued; the queued
\* updates run in order before the next render, so activeBlocks holds the
\* state with every queued update applied, while the callbacks handed out by
\* the latest render still see renderedBlocks. The variables of an entry are
\* passed through and left out.
MaxActiveBlocks == 3

AddActiveBlock(blockName) ==
    /\ \E block \in ComposerBlocks :
          /\ block.name = blockName
          /\ activeBlocks' =
                IF \E i \in DOMAIN renderedBlocks :
                        renderedBlocks[i].block.category = block.category
                THEN [i \in DOMAIN activeBlocks |->
                        IF activeBlocks[i].block.category = block.category
                        THEN [block |-> block, priority |-> block.priority]
                        ELSE activeBlocks[i]]
                ELSE Append(activeBlocks, [block |-> block, priority |-> block.priority])
    /\ Len(activeBlocks') <= MaxActiveBlocks
    /\ UNCHANGED <<loaderVars, composerVars, entityVars, factory, returned, renderedBlocks>>

RemoveActiveBlock(blockName) ==
    /\ activeBlocks' = SelectSeq(activeBlocks, LAMBDA ab : ab.block.name # blockName)
    /\ UNCHANGED <<loaderVars, composerVars, entityVars, factory, returned, renderedBlocks>>

ClearActiveBlocks ==
    /\ activeBlocks' = <<>>
    /\ UNCHANGED <<loaderVars, composerVars, entityVars, factory, returned, renderedBlocks>>

\* The component renders again: its callbacks close over the current state.
Render ==
    /\ renderedBlocks # activeBlocks
    /\ renderedBlocks' = activeBlocks
    /\ UNCHANGED <<loaderVars, composerVars, entityVars, factory, returned, activeBlocks>>

\* The repository alone, over every corpus in which each source holds for "x"
\* no file, a file that does not parse or validate, or one of two valid
\* blocks, and the defaults hold a valid "y".
RepoCorpora ==
    {[s \in Sources |-> [n \in Names |->
        CASE n = "x" -> c[s]
          [] n = "y" /\ s = "defaults" -> Good("visualization", TRUE, 1)
          [] OTHER -> Absent]] : c \in [Sources -> {Absent, Bad, Good("analysis", TRUE, 1),
                                                    Good("reporting", TRUE, 2)}]}

RepoInit == files \in RepoCorpora /\ dirs = AllReadable /\ InitState /\ ComposerIdle /\ EntityIdle

RepoNext ==
    \/ Tick
    \/ \E p \in Callers : LoadAllStart(p)
    \/ \E p \in Callers : ScanStep(p)
    \/ \E p \in Callers : \E n \in {"x", "y"} : LoadByNameStart(p, n)
    \/ \E p \in Callers : LoadByNameStep(p)
    \/ ClearCache

RepoSpec == RepoInit /\ [][RepoNext]_vars

\* loadAll() over corpora with bad files and with search paths that are
\* missing or cannot be listed; a missing directory holds no file.
ScanCorpora ==
    {fd \in RepoCorpora \X [Sources -> DirectoryStates] :
        \A s \in Sources : fd[2][s] = "missing" => \A n \in Names : fd[1][s][n] = Absent}

ScanInit ==
    /\ \E fd \in ScanCorpora : files = fd[1] /\ dirs = fd[2]
    /\ InitState
    /\ ComposerIdle
    /\ EntityIdle

ScanNext ==
    \/ \E p \in Callers : LoadAllStart(p)
    \/ \E p \in Callers : ScanStep(p)

ScanSpec == ScanInit /\ [][ScanNext]_vars

\* The repository's watch: watches started and stopped, files changing, the
\* watcher's events delivered, and by-name lookups filling the memo.
WatchNext ==
    \/ Tick
    \/ WatchForChanges
    \/ \E h \in 1..MaxHandles : StopWatching(h)
    \/ \E c \in EditContents : FileChange("defaults", "y", c)
    \/ WatcherNotify
    \/ \E p \in Callers : \E n \in {"x", "y"} : LoadByNameStart(p, n)
    \/ \E p \in Callers : LoadByNameStep(p)

WatchSpec == Init /\ [][WatchNext]_vars

\* By-name lookups through the use case and straight at the repository, over
\* a corpus that holds a disabled block ("z", in the global source).
ByNameNext ==
    \/ Tick
    \/ \E p \in Callers : \E n \in {"x", "z"} : LoadByNameBegin(p, "executeByName", n)
    \/ \E p \in Callers : LoadByNameStart(p, "z")
    \/ \E p \in Callers : LoadByNameStep(p)
    \/ ClearCache

ByNameSpec == Init /\ [][ByNameNext]_vars

\* The composer run once on each activation list of up to MaxActive configs.
ComposeInit ==
    /\ files = InitCorpus
    /\ dirs = AllReadable
    /\ InitState
    /\ activePrompts \in ListsUpTo(ActivePromptConfigs, MaxActive)
    /\ result = <<>>
    /\ systemPrompt = OriginalPrompt
    /\ summary = <<>>
    /\ EntityIdle

ComposeNext == ComposerExecute \/ ComposerSummary

ComposeSpec == ComposeInit /\ [][ComposeNext]_vars

\* execute() on original prompts with and without surrounding whitespace and
\* on activation lists that include a block with variables.
PromptConfigs ==
    {createActivePrompt(b, <<>>, <<>>) : b \in ComposerBlocks}
        \cup {createActivePrompt(TemplateBlock, v, <<>>) : v \in VariableMaps}

PromptInit ==
    /\ files = InitCorpus
    /\ dirs = AllReadable
    /\ InitState
    /\ activePrompts \in ListsUpTo(PromptConfigs, MaxTemplated)
    /\ systemPrompt \in {<<>>, <<" ">>, <<"S">>, <<" ", "S">>, <<"S", "\n">>,
                         <<" ", "S", "\n">>, <<"S", "\n", "\n", "\n", "\n">>}
    /\ result = <<>>
    /\ summary = <<>>
    /\ EntityIdle

PromptSpec == PromptInit /\ [][ComposerExecute]_vars

\* PromptBlock.create on every input of PromptBlockData, and the operations
\* of the instances it makes.
EntityInit ==
    /\ files = InitCorpus
    /\ dirs = AllReadable
    /\ InitState
    /\ ComposerIdle
    /\ data \in PromptBlockData
    /\ instances = <<>>
    /\ outcome = NoOutcome
    /\ rawData = [key \in {"name", "prompt", "category", "priority", "tags",
                            "variables", "description"} |-> Undefined]
    /\ validation = <<>>

EntityNext ==
    \/ Create
    \/ \E self \in 1..MaxInstances : \E enabled \in BOOLEAN : WithEnabled(self, enabled)
    \/ \E self \in 1..MaxInstances :
            Query(self, "toData", <<>>, toData(instances[self]))
    \/ \E self \in 1..MaxInstances :
            Query(self, "resolvePrompt", <<>>, resolvePrompt(instances[self], <<>>))
    \/ \E self \in 1..MaxInstances : \E tag \in {"t", "u"} :
            Query(self, "hasTag", <<tag>>, hasTag(instances[self], tag))
    \/ \E self \in 1..MaxInstances :
            Query(self, "getRequiredVariables", <<>>, getRequiredVariables(instances[self]))
    \/ \E self \in 1..MaxInstances :
            Query(self, "getId", <<>>, getId(instances[self]))

EntitySpec == EntityInit /\ [][EntityNext]_vars

\* validate() on every raw input, with the default and with other options.
ValidateInit ==
    /\ files = InitCorpus
    /\ dirs = AllReadable
    /\ InitState
    /\ ComposerIdle
    /\ data = NoData
    /\ instances = <<>>
    /\ outcome = NoOutcome
    /\ rawData \in RawInputs
    /\ validation = <<>>

\* opts is { ...this.getDefaultOptions(), ...options }
ValidateNext ==
    \E opts \in {getDefaultOptions,
                  [strict |-> FALSE, requireDescription |-> TRUE, requireTags |-> TRUE,
                   maxPromptLength |-> 1],
                  [strict |-> TRUE, requireDescription |-> FALSE, requireTags |-> FALSE,
                   maxPromptLength |-> 1]} : Validate(opts)

ValidateSpec == ValidateInit /\ [][ValidateNext]_vars

\* execute() and executeByCategory() on a corpus that does not change.
CountNext ==
    \/ \E p \in Callers : ExecuteStart(p, "execute", "")
    \/ \E p \in Callers : \E c \in CategoryInputs : ExecuteStart(p, "executeByCategory", c)
    \/ \E p \in Callers : ScanStep(p)
    \/ Tick

CountSpec == Init /\ [][CountNext]_vars

\* One factory and any sequence of its create calls and resets.
FactorySpec ==
    Init /\ [][CreateLoadPromptBlocks \/ CreateRepository \/ CreateEnhanceSystemPrompt
                    \/ Reset]_vars

\* The provider's three mutators called in any order, with or without a
\* render between two calls.
WebviewSpec ==
    Init /\ [][\/ \E blockName \in {"a", "b", "c", "v"} : AddActiveBlock(blockName)
               \/ \E blockName \in {"a", "b", "c", "v"} : RemoveActiveBlock(blockName)
               \/ ClearActiveBlocks
               \/ Render]_vars

\* loadByName() called with names of every kind, well-formed or not.
NameNext ==
    \/ Tick
    \/ \E p \in Callers : \E n \in NameInputs : LoadByNameStart(p, n)
    \/ \E p \in Callers : LoadByNameStep(p)
    \/ ClearCache

NameSpec == RepoInit /\ [][NameNext]_vars

\* ---------------------------------------------------------------- claims

\* C1: a version bump during an in-flight load must not let that load's result
\* be written into the cache as a valid entry: no execute()/executeByCategory()
\* is served (fromCache = true) an entry written by a load that had read the
\* repository before an invalidateCache() that came before its cache write.
C1_NoStaleWriteServed == ~(lastResult.fromCache /\ served.stale)

\* C2: the first execute() started after an invalidateCache() is never a cache
\* hit (it reports fromCache = false and loads afresh).
C2_NextExecuteAfterInvalidateMisses ==
    ~(lastResult.op = "execute" /\ lastResult.fromCache /\ served.firstAfterInvalidate)

\* C3: for every cache key at most one population is in flight at any time.
C3_AtMostOneInFlightPerKey ==
    \A p, q \in Callers :
        (p # q /\ call[p].op \in LoadOps /\ call[q].op \in LoadOps)
            => cacheKeyOf(call[p].op, call[p].arg) # cacheKeyOf(call[q].op, call[q].arg)

\* C4: with hot reload enabled, after a file notification no
\* execute()/executeByCategory() is served an entry cached before it.
C4_NotServedEntryFromBeforeNotification ==
    ~(HotReloadEnabled /\ lastResult.fromCache /\ served.preEvent)

\* C5: a caller that mutates a list it was handed never changes the cache:
\* no returned list is the array the cache holds.
C5_CallerMutationLeavesCacheAlone == [][MutateResult => cache' = cache]_vars

\* C6: a fromCache = true result is returned only from an entry younger than
\* the TTL and of the current version, and it is that entry's list; a read
\* that finds an entry failing either test does not serve it and removes it.
C6_ServedOnlyFreshEntries ==
    [][/\ lastResult'.fromCache =>
            LET key == cacheKeyOf(lastResult'.op, lastResult'.arg)
            IN /\ cache[key] # <<>>
               /\ now - cache[key][1].timestamp < cacheTimeout
               /\ cache[key][1].version = cacheVersion
               /\ lastResult'.blocks = cache[key][1].blocks
       /\ \A p \in Callers :
            (call[p].op = "none" /\ call'[p].op \in LoadOps) =>
                LET key == cacheKeyOf(call'[p].op, call'[p].arg)
                IN /\ \/ cache[key] = <<>>
                      \/ now - cache[key][1].timestamp >= cacheTimeout
                      \/ cache[key][1].version # cacheVersion
                   /\ cache'[key] = <<>>]_vars

C6_Witness ==
    /\ lastResult.fromCache
    /\ cache["all"] # <<>>
    /\ now - cache["all"][1].timestamp = TickMs

\* C7: every invalidateCache() call (direct, or from the hot-reload dispose
\* function) empties the use-case cache, adds exactly one to the version
\* counter and empties the repository memo; the counter never decreases.
C7_InvalidateClearsBothLayers ==
    [][/\ cacheVersion' >= cacheVersion
       /\ (InvalidateCache \/ \E h \in 1..MaxWatchers : StopHotReload(h)) =>
            /\ \A k \in CacheKeys : cache'[k] = <<>>
            /\ cacheVersion' = cacheVersion + 1
            /\ \A n \in Names : repoCache'[n] = <<>>]_vars

C7_Witness ==
    /\ cacheVersion > 0
    /\ awaitingExecute
    /\ started >= 2
    /\ \A k \in CacheKeys : cache[k] = <<>>
    /\ \A n \in Names : repoCache[n] = <<>>

\* C8: invalidateCache() and the watcher's cache clear can run in every state,
\* whatever loads are suspended, and every suspended load can still take its
\* next step.
C8_InvalidationNeverBlocks ==
    /\ cacheVersion < MaxVersion => ENABLED InvalidateCache
    /\ (pendingEvent /\ fileWatcher # 0) => ENABLED WatcherNotify
    /\ \A p \in Callers : call[p].op \in ScanOps => ENABLED ScanStep(p)
    /\ \A p \in Callers : call[p].op = "loadByName" => ENABLED LoadByNameStep(p)

C8_Witness ==
    /\ cacheVersion > 0
    /\ inval # {}
    /\ \E p \in Callers : call[p].op = "loadByName"

\* C9: a load that started with a cache miss completes whether or not its
\* caller still awaits it (the repository answering), and the step that
\* completes it writes one whole entry for its key (the returned list, the
\* current time and version), which a read at that moment would serve.
C9_AbandonedLoadCompletes ==
    /\ \A p \in Callers : (call[p].op \in LoadOps) ~> (call[p].op = "none")
    /\ [][\A p \in Callers :
            (call[p].op \in LoadOps /\ call'[p].op = "none") =>
                LET key == cacheKeyOf(call[p].op, call[p].arg)
                IN /\ cache'[key] = <<[blocks |-> lastResult'.blocks,
                                       timestamp |-> now,
                                       version |-> cacheVersion]>>
                   /\ getCachedBlocks(cache', key, now', cacheVersion') # <<>>]_vars

C9_Witness ==
    /\ \E p \in abandoned : call[p].op = "none"
    /\ lastResult.op = "execute"
    /\ ~lastResult.fromCache
    /\ cache["all"] # <<>>

\* C10: for every name whose file is valid in two or more sources, loadAll()
\* holds exactly one block of that name, the one of the highest-ranked source
\* holding a valid file (workspace > global > defaults), and loadByName
\* succeeds with that same block.
C10_HighestRankedSourceWins ==
    LET SourceRank(s) == CASE s = "workspace" -> 1 [] s = "global" -> 2 [] OTHER -> 3
        ValidSources(n) == {s \in Sources : files[s][n].kind = "ok"}
        HighestRanked(n) ==
            CHOOSE s \in ValidSources(n) :
                \A u \in ValidSources(n) : SourceRank(s) <= SourceRank(u)
        BlockOf(s, n) ==
            [name |-> n, category |-> files[s][n].category,
             enabled |-> files[s][n].enabled, rev |-> files[s][n].rev, source |-> s]
    IN /\ lastResult.op = "loadAll" =>
            \A n \in Names :
                Cardinality(ValidSources(n)) >= 2 =>
                    /\ Cardinality({i \in 1..Len(lastResult.blocks) :
                                        lastResult.blocks[i].name = n}) = 1
                    /\ \E i \in 1..Len(lastResult.blocks) :
                            lastResult.blocks[i] = BlockOf(HighestRanked(n), n)
       /\ lastResult.op = "loadByName" =>
            (Cardinality(ValidSources(lastResult.arg)) >= 2 =>
                /\ lastResult.success
                /\ lastResult.blocks =
                        <<BlockOf(HighestRanked(lastResult.arg), lastResult.arg)>>)

\* C11: a loadByName() that finds no memoized entry returns the first
\* successful parse in source order: whenever some source holds a valid file
\* for the name, the result is success with the block of the highest-ranked
\* such source, whatever the higher-ranked sources hold.
C11_FirstSuccessfulParse ==
    [][\A p \in Callers :
        (LoadByNameStep(p) /\ call'[p].op = "none") =>
            LET n == call[p].arg
                valid == {i \in 1..Len(getSearchPaths) : files[getSearchPaths[i]][n].kind = "ok"}
            IN valid # {} =>
                LET first == CHOOSE i \in valid : \A j \in valid : i <= j
                    s == getSearchPaths[first]
                IN /\ lastResult'.success
                   /\ lastResult'.blocks =
                        <<[name |-> n, category |-> files[s][n].category,
                           enabled |-> files[s][n].enabled, rev |-> files[s][n].rev,
                           source |-> s]>>]_vars

\* C12: every result of loadByName(), memoized or not, success or failure,
\* carries a source tag that is "workspace", "global" or "defaults".
C12_SourceTagIsOneOfThree ==
    lastResult.op = "loadByName" => lastResult.source \in {"workspace", "global", "defaults"}

\* C13: loadByName() with a name that is empty or holds a character outside
\* [A-Za-z0-9_-] returns a failure result at once: it starts no file-system
\* access and leaves the repository memo as it was.
C13_MalformedNameRejectedBeforeIO ==
    [][\A p \in Callers : \A n \in {"", "../x", "x y"} :
        LoadByNameStart(p, n) =>
            /\ lastResult'.op = "loadByName"
            /\ lastResult'.arg = n
            /\ ~lastResult'.success
            /\ lastResult'.blocks = <<>>
            /\ call' = call
            /\ repoCache' = repoCache]_vars

C13_Witness ==
    /\ lastResult.op = "loadByName"
    /\ lastResult.arg = "../x"
    /\ ~lastResult.success
    /\ repoCache["x"] # <<>>
    /\ \A p \in Callers : call[p].op = "none"

\* C14: loadAll() always returns, and what it returns is exactly the blocks of
\* the files that parse and validate in the directories that can be listed,
\* one per name, taken from the highest-ranked such source: no bad file and no
\* missing or unlistable directory takes a valid block of another file away.
C14_LoadAllSkipsBadFiles ==
    [][\A p \in Callers :
        (call[p].op = "loadAll" /\ call[p].idx = Len(getSearchPaths) /\ ScanStep(p)) =>
            LET loadable(n) == {i \in 1..Len(getSearchPaths) :
                                   /\ dirs[getSearchPaths[i]] = "ok"
                                   /\ files[getSearchPaths[i]][n].kind = "ok"}
                top(n) == getSearchPaths[CHOOSE i \in loadable(n) : \A j \in loadable(n) : i <= j]
                got == {lastResult'.blocks[i] : i \in 1..Len(lastResult'.blocks)}
            IN /\ lastResult'.op = "loadAll"
               /\ call'[p].op = "none"
               /\ got = {[name |-> n, category |-> files[top(n)][n].category,
                          enabled |-> files[top(n)][n].enabled,
                          rev |-> files[top(n)][n].rev, source |-> top(n)] :
                            n \in {m \in Names : loadable(m) # {}}}
               /\ Len(lastResult'.blocks) = Cardinality(got)]_vars

C14_Witness ==
    /\ lastResult.op = "loadAll"
    /\ dirs["workspace"] = "unreadable"
    /\ dirs["global"] = "ok"
    /\ files["global"]["x"] = Bad
    /\ files["defaults"]["x"].kind = "ok"
    /\ Len(lastResult.blocks) = 2

\* C15: every event a watch delivers empties the repository memo in that very
\* step; a handle that has been called leaves no watch of its own delivering
\* events; and a call of a handle that was already called changes nothing.
C15_WatchHandleStopsAndIsIdempotent ==
    [][/\ WatcherNotify => \A n \in Names : repoCache'[n] = <<>>
       /\ \A h \in 1..MaxHandles :
            /\ handles'[h] = "called" => fileWatcher' # h
            /\ (StopWatching(h) /\ handles[h] = "called") =>
                    /\ fileWatcher' = fileWatcher
                    /\ pendingEvent' = pendingEvent
                    /\ repoCache' = repoCache]_vars

C17_DisabledBlockLoadableByName ==
    (lastResult.op \in {"loadByName", "executeByName"} /\ lastResult.arg \in Names) =>
        LET n == lastResult.arg
            present == {i \in 1..Len(getSearchPaths) : files[getSearchPaths[i]][n].kind # "absent"}
        IN present # {} =>
            LET s == getSearchPaths[CHOOSE i \in present : \A j \in present : i <= j]
            IN (files[s][n].kind = "ok" /\ ~files[s][n].enabled) =>
                    lastResult.blocks =
                        <<[name |-> n, category |-> files[s][n].category,
                           enabled |-> FALSE, rev |-> files[s][n].rev, source |-> s]>>

\* C18: for N active configs over K categories, execute() applies exactly K
\* configs, one per category, and records exactly N - K conflicts: for every
\* category, every config of it other than the survivor is named once as
\* previousBlock, with the survivor of that category as selectedBlock.
C18_OneSurvivorPerCategoryAndOneRecordPerLoser ==
    result # <<>> =>
        LET applied == result[1].appliedPrompts
            records == result[1].conflictResolution
            N == Len(activePrompts)
            categories == {activePrompts[i].block.category : i \in 1..N}
            K == Cardinality(categories)
            BlockNames == {activePrompts[i].block.name : i \in 1..N}
        IN /\ Len(applied) = K
           /\ {applied[i].block.category : i \in 1..Len(applied)} = categories
           /\ Len(records) = N - K
           /\ \A i \in 1..Len(records) : records[i].category \in categories
           /\ \A c \in categories :
                LET survivor == applied[CHOOSE i \in 1..Len(applied) :
                                            applied[i].block.category = c]
                IN /\ \A i \in 1..Len(records) :
                        records[i].category = c =>
                            records[i].selectedBlock = survivor.block.name
                   /\ \A nm \in BlockNames :
                        Cardinality({i \in 1..Len(records) :
                                        /\ records[i].category = c
                                        /\ records[i].previousBlock = nm})
                            = Cardinality({i \in 1..N :
                                            /\ activePrompts[i].block.category = c
                                            /\ activePrompts[i].block.name = nm})
                              - (IF survivor.block.name = nm THEN 1 ELSE 0)

C18_Witness ==
    /\ result # <<>>
    /\ Len(activePrompts) = 4
    /\ Cardinality({activePrompts[i].block.name : i \in 1..4}) = 4
    /\ Len(result[1].appliedPrompts) = 2
    /\ Len(result[1].conflictResolution) = 2

\* C19: the survivor of each category is a config of that category with the
\* greatest effective priority, and among several with that priority the one
\* that comes first in the input list.
C19_SurvivorIsFirstOfHighestPriority ==
    result # <<>> =>
        \A k \in 1..Len(result[1].appliedPrompts) :
            LET survivor == result[1].appliedPrompts[k]
                group == {i \in 1..Len(activePrompts) :
                            activePrompts[i].block.category = survivor.block.category}
                best == CHOOSE i \in group :
                            \A j \in group :
                                \/ activePrompts[j].priority < activePrompts[i].priority
                                \/ /\ activePrompts[j].priority = activePrompts[i].priority
                                   /\ i <= j
            IN survivor = activePrompts[best]

C19_Witness ==
    /\ result # <<>>
    /\ Len(activePrompts) = 3
    /\ activePrompts[1].block.name = "c" /\ activePrompts[1].priority = 80
    /\ activePrompts[2].block.name = "b" /\ activePrompts[2].priority = 90
    /\ activePrompts[3].block.name = "a" /\ activePrompts[3].priority = 90
    /\ result[1].appliedPrompts = <<activePrompts[2]>>

\* C20: appliedPrompts is in non-increasing order of effective priority,
\* whatever the categories and the input order, and the block bodies follow
\* the original prompt in enhancedPrompt in that same order.
C20_AppliedInDescendingPriority ==
    result # <<>> =>
        LET applied == result[1].appliedPrompts
            words(s) == SelectSeq(s, LAMBDA ch : ch \notin Whitespace)
        IN /\ \A i, j \in 1..Len(applied) :
                i < j => applied[i].priority >= applied[j].priority
           /\ words(result[1].enhancedPrompt) =
                words(OriginalPrompt)
                    \o [i \in 1..Len(applied) |-> words(applied[i].block.prompt)[1]]

C20_Witness ==
    /\ result # <<>>
    /\ Len(activePrompts) = 2
    /\ activePrompts[1].block.name = "c" /\ activePrompts[1].priority = 80
    /\ activePrompts[2].block.name = "v"
    /\ result[1].appliedPrompts = <<activePrompts[2], activePrompts[1]>>
    /\ result[1].enhancedPrompt = <<"S", "\n", "\n", "V", "\n", "\n", "C">>

\* C21: the summary and the composition name the same active blocks: for a
\* non-empty activation list the (category, block name) pairs of the summary
\* text are those of appliedPrompts, one name per category.
C21_SummaryAgreesWithExecute ==
    (result # <<>> /\ summary # <<>> /\ activePrompts # <<>>) =>
        LET text == summary[1]
            applied == result[1].appliedPrompts
            blockNames == {b.name : b \in ComposerBlocks}
            headings == {i \in 1..Len(text) :
                            \E c \in PromptCategory : text[i] = CATEGORY_DISPLAY_NAMES[c]}
            heading(i) == CHOOSE h \in headings :
                            h < i /\ \A g \in headings : g < i => g <= h
            categoryAt(i) == CHOOSE c \in PromptCategory :
                                CATEGORY_DISPLAY_NAMES[c] = text[heading(i)]
            summarised == {<<categoryAt(i), text[i]>> :
                             i \in {k \in 1..Len(text) : text[k] \in blockNames}}
            composed == {<<applied[i].block.category, applied[i].block.name>> :
                            i \in 1..Len(applied)}
        IN /\ summarised = composed
           /\ \A p, q \in summarised : p[1] = q[1] => p = q
           /\ Cardinality(headings) = Cardinality(summarised)

C21_Witness ==
    /\ result # <<>> /\ summary # <<>>
    /\ Len(activePrompts) = 3
    /\ activePrompts[1].block.name = "a"
    /\ activePrompts[2].block.name = "v"
    /\ activePrompts[3].block.name = "c" /\ activePrompts[3].priority = 80
    /\ summary[1] = <<"Analysis", ": ", "c", " | ", "Visualization", ": ", "v">>
    /\ [i \in 1..2 |-> result[1].appliedPrompts[i].block.name] = <<"v", "c">>

\* C22: with an empty activation list execute() returns the original prompt
\* character for character, surrounding whitespace included, and empty
\* appliedPrompts and conflictResolution lists.
C22_EmptyListReturnsOriginalUntouched ==
    (result # <<>> /\ activePrompts = <<>>) =>
        /\ result[1].enhancedPrompt = systemPrompt
        /\ result[1].appliedPrompts = <<>>
        /\ result[1].conflictResolution = <<>>
        /\ result[1].addedLength = 0

C22_Witness ==
    /\ activePrompts = <<>>
    /\ systemPrompt = <<" ", "S", "\n">>
    /\ result # <<>>
    /\ result[1].enhancedPrompt = <<" ", "S", "\n">>

\* C23: with at least one survivor enhancedPrompt is the original prompt with
\* only its trailing whitespace removed, then for each survivor in order a
\* blank line and the survivor's substituted body without its surrounding
\* whitespace; the leading whitespace of the original prompt stays.
C23_OnlyTrailingWhitespaceRemoved ==
    (result # <<>> /\ result[1].appliedPrompts # <<>>) =>
        LET applied == result[1].appliedPrompts
            bodies == [i \in 1..Len(applied) |->
                          <<"\n", "\n">>
                              \o trim(resolvePrompt(applied[i].block, applied[i].variables))]
        IN result[1].enhancedPrompt = trimEnd(systemPrompt) \o join(bodies, <<>>)

\* C24: in the body of an applied block every {{v}} of a declared variable v
\* is replaced by the value of the activation's entry for v when there is
\* one, else by the declared default, else by the empty text.
C24_SuppliedValueThenDefaultThenEmpty ==
    (result # <<>> /\ result[1].appliedPrompts # <<>>) =>
        LET applied == result[1].appliedPrompts
            chosen(variable, values) ==
                IF valueOf(values, variable.name) # <<>> THEN valueOf(values, variable.name)[1]
                ELSE IF variable.defaultValue # <<>> THEN variable.defaultValue[1]
                ELSE <<>>
            substituted(config) ==
                LET vs == config.block.variables
                    step[k \in 0..Len(vs)] ==
                        IF k = 0 THEN config.block.prompt
                        ELSE replaceAll(step[k - 1], placeholder(vs[k].name),
                                        chosen(vs[k], config.variables))
                IN step[Len(vs)]
            bodies == [i \in 1..Len(applied) |->
                          <<"\n", "\n">> \o trim(substituted(applied[i]))]
        IN result[1].enhancedPrompt = trim(systemPrompt) \o join(bodies, <<>>)

\* C25: for every valid input (well-formed name, non-empty prompt, category of
\* the enum, priority absent or in [0,100], every variable named) create
\* succeeds and toData() of the block returns the input's values, an absent
\* optional field as its default ("", [], [], [], 50, true).
C25_CreateToDataRoundTrip ==
    LET valid ==
            /\ data.name # <<>> /\ \A i \in 1..Len(data.name) : data.name[i] \in NameFormatChars
            /\ data.prompt # <<>>
            /\ data.category \in PromptCategory
            /\ data.priority # <<>> =>
                    (data.priority[1] # NaN /\ 0 <= data.priority[1] /\ data.priority[1] <= 100)
            /\ data.variables # <<>> =>
                    \A i \in 1..Len(data.variables[1]) :
                        trim(data.variables[1][i].name) # <<>>
        given(option, default) == IF option = <<>> THEN <<default>> ELSE option
    IN valid =>
        /\ outcome.op = "create" => outcome.threw = <<>>
        /\ (outcome.op = "toData" /\ outcome.self = 1) =>
              outcome.value =
                [name |-> data.name,
                 description |-> given(data.description, <<>>),
                 category |-> data.category,
                 tags |-> given(data.tags, <<>>),
                 prompt |-> data.prompt,
                 variables |-> given(data.variables, <<>>),
                 outputs |-> given(data.outputs, <<>>),
                 priority |-> given(data.priority, 50),
                 enabled |-> given(data.enabled, TRUE)]

\* C26 as stated: for every input whose name has a character outside
\* [A-Za-z0-9_-], create fails with a validation error of field "name".
C26_BadNameFailsWithFieldName ==
    (outcome.op = "create" /\ \E i \in 1..Len(data.name) : data.name[i] \notin NameFormatChars)
        => outcome.threw = <<"name">>

\* C26, amended: for every input whose name has a character outside
\* [A-Za-z0-9_-], create fails with a validation error; its field is "name"
\* when the name is blank or the prompt is not blank and the category is of
\* the enum, and otherwise the field of the earlier failing test: "prompt"
\* for a blank prompt, else "category".
C26_BadNameFailsAtFirstFailingTest ==
    (outcome.op = "create" /\ \E i \in 1..Len(data.name) : data.name[i] \notin NameFormatChars)
        => /\ outcome.threw # <<>>
           /\ outcome.threw[1] =
                IF trim(data.name) = <<>> THEN "name"
                ELSE IF trim(data.prompt) = <<>> THEN "prompt"
                ELSE IF data.category \notin PromptCategory THEN "category"
                ELSE "name"
           /\ instances = <<>>

C26_Witness ==
    /\ outcome.op = "create"
    /\ data.name = <<"x", " ", "y">>
    /\ data.prompt = <<"P">>
    /\ data.category = "analysis"
    /\ outcome.threw = <<"name">>

\* C27: every instance has a well-formed name, a non-empty prompt, a category
\* of the enum, a priority in [0,100] and only variables with non-empty
\* names, and create throws, making no instance, for an input that violates
\* one of these.
C27_EveryInstanceIsValid ==
    LET wellFormed(name) ==
            name # <<>> /\ \A i \in 1..Len(name) : name[i] \in NameFormatChars
        inRange(priority) == priority # NaN /\ 0 <= priority /\ priority <= 100
        named(variables) == \A i \in 1..Len(variables) : trim(variables[i].name) # <<>>
        violates ==
            \/ ~wellFormed(data.name)
            \/ trim(data.prompt) = <<>>
            \/ data.category \notin PromptCategory
            \/ data.priority # <<>> /\ ~inRange(data.priority[1])
            \/ data.variables # <<>> /\ ~named(data.variables[1])
    IN /\ \A i \in 1..Len(instances) :
            /\ wellFormed(instances[i].name)
            /\ instances[i].prompt # <<>>
            /\ instances[i].category \in PromptCategory
            /\ inRange(instances[i].priority)
            /\ named(instances[i].variables)
       /\ violates => instances = <<>>
       /\ (violates /\ outcome.op = "create") => outcome.threw # <<>>

\* C28: no operation changes a field of a block that exists, and
\* withEnabled(e) returns another instance that equals the block it was
\* called on in every field but enabled, which is e.
C28_BlocksAreNeverMutated ==
    [][/\ \A i \in 1..Len(instances) :
            i <= Len(instances') /\ instances'[i] = instances[i]
       /\ outcome'.op = "withEnabled" =>
            /\ outcome'.value \notin 1..Len(instances)
            /\ outcome'.value \in 1..Len(instances')
            /\ instances'[outcome'.value] =
                  [instances[outcome'.self] EXCEPT !.enabled = outcome'.arg[1]]]_vars

C28_Witness ==
    /\ outcome.op = "withEnabled"
    /\ outcome.self = 1 /\ outcome.value = 2
    /\ instances[1].enabled = TRUE
    /\ instances[2].enabled = FALSE
    /\ instances[2].name = instances[1].name

\* C29: validate() never throws: for every raw input, fields missing or of
\* the wrong type included, it returns a result whose isValid is true exactly
\* when errors is empty, whatever the warnings.
C29_ValidateNeverThrows ==
    validation # <<>> =>
        /\ ~validation[1].threw
        /\ validation[1].isValid <=> (validation[1].errors = <<>>)

\* C30: in every result of execute() and executeByCategory() loadedCount is
\* the number of blocks returned and errorCount is the number of records the
\* repository holds for the query less the number of enabled ones, the same
\* for a result served from the cache as for a fresh one.
C30_ErrorCountIsRawMinusEnabled ==
    lastResult.op \in LoadOps =>
        LET holders(n) == {i \in 1..Len(getSearchPaths) :
                              files[getSearchPaths[i]][n].kind = "ok"}
            record(n) == files[getSearchPaths[CHOOSE i \in holders(n) :
                                                \A j \in holders(n) : i <= j]][n]
            raw == {n \in Names :
                        /\ holders(n) # {}
                        /\ lastResult.op = "executeByCategory" =>
                                record(n).category = lastResult.arg}
            enabled == {n \in raw : record(n).enabled}
        IN /\ lastResult.loadedCount = Len(lastResult.blocks)
           /\ lastResult.errorCount = Cardinality(raw) - Cardinality(enabled)

\* C31: the repository memo of loadByName(). A lookup that ends in a failure
\* or finds no file leaves the memo as it was, and a memo entry always holds
\* the block of its name; a lookup is answered from the memo exactly when the
\* entry is younger than five minutes, strictly; any other lookup removes the
\* entry of its name and goes on to the file system.
C31_MemoHoldsFreshSuccessesOnly ==
    [][\A p \in Callers :
        /\ (LoadByNameStep(p) /\ call'[p].op = "none" /\ ~lastResult'.success) =>
                repoCache' = repoCache
        /\ \A n \in {"x", "y"} :
                /\ repoCache[n] # <<>> => repoCache[n][1].block.name = n
                /\ LoadByNameStart(p, n) =>
                      IF repoCache[n] # <<>> /\ now - repoCache[n][1].timestamp < 300000
                      THEN /\ call' = call
                           /\ repoCache' = repoCache
                           /\ lastResult'.success
                           /\ lastResult'.blocks = <<repoCache[n][1].block>>
                      ELSE /\ repoCache'[n] = <<>>
                           /\ call'[p].op = "loadByName"
                           /\ call'[p].acc = <<>>
                           /\ lastResult' = NoResult]_vars

\* A lookup answered from a memo entry that is older than zero, and a lookup
\* at the file system while the clock stands at the entry's expiry.
C31_Witness ==
    /\ lastResult.op = "loadByName"
    /\ lastResult.success
    /\ repoCache[lastResult.arg] # <<>>
    /\ now - repoCache[lastResult.arg][1].timestamp = TickMs
    /\ \E p \in Callers : call[p].op = "loadByName" /\ now = repositoryCacheTimeout

\* C32: of everything one factory has handed out, the instances that use a
\* repository all use the same one (a repository uses itself), and a create
\* call repeated returns the instance it returned before.
C32_OneRepositoryAndIdempotentCreates ==
    \A i, j \in DOMAIN returned :
        /\ (returned[i].repository # 0 /\ returned[j].repository # 0) =>
                returned[i].repository = returned[j].repository
        /\ returned[i].call = returned[j].call => returned[i].id = returned[j].id

\* C33: the webview's activeBlocks never holds two blocks of one category.
C33_AtMostOneActiveBlockPerCategory ==
    \A i, j \in DOMAIN activeBlocks :
        activeBlocks[i].block.category = activeBlocks[j].block.category => i = j

\* C34: every entry in the use-case cache carries the current version: no
\* entry outlives a bump of the version counter.
C34_CachedEntriesCarryCurrentVersion ==
    \A k \in CacheKeys : cache[k] # <<>> => cache[k][1].version = cacheVersion

\* After an invalidation the cache holds an entry again, written by a load
\* that had read its directories before the invalidation.
C34_Witness ==
    /\ cacheVersion = 1
    /\ \E k \in staleKeys : cache[k] # <<>> /\ cache[k][1].version = 1

\* C35: a by-name lookup that read its file before the repository memo was
\* cleared does not put the block it read into the memo when it resumes.
C35_PreClearReadIsNotMemoized ==
    [][\A p \in Callers :
        (LoadByNameStep(p) /\ call[p].acc # <<>> /\ p \in inval) =>
            repoCache'[call[p].arg] = repoCache[call[p].arg]]_vars

\* C36: a loadByName() that has just returned agrees with what loadAll()
\* returns for the same files: it succeeded exactly when loadAll() holds a
\* block of that name, and then with that block (same content, same source).
C36_ByNameAgreesWithLoadAll ==
    LET sp == Reverse(getSearchPaths)
        all == MapSetAll(MapSetAll(MapSetAll(<<>>,
                    loadBlocksFromDirectory(dirs, files, sp[1]).blocks),
                    loadBlocksFromDirectory(dirs, files, sp[2]).blocks),
                    loadBlocksFromDirectory(dirs, files, sp[3]).blocks)
    IN lastResult.op = "loadByName" =>
          /\ lastResult.success <=> \E i \in DOMAIN all : all[i].name = lastResult.arg
          /\ lastResult.success => \E i \in DOMAIN all : all[i] = lastResult.blocks[1]

\* C37: a dispose handle stops only the watch it was returned for: a call of
\* the handle of an earlier watchForChanges() leaves the watcher of a later
\* watchForChanges() in place.
C37_HandleStopsOnlyItsOwnWatch ==
    [][\A h \in 1..MaxHandles :
        (StopWatching(h) /\ fileWatcher # 0 /\ fileWatcher # h) =>
            fileWatcher' = fileWatcher]_vars

\* C38: in the result of execute() totalLength is the length of
\* enhancedPrompt, addedLength is totalLength less the length of the original
\* prompt, and addedLength is not negative.
C38_LengthsAgreeAndNothingIsRemoved ==
    result # <<>> =>
        /\ result[1].totalLength = Len(result[1].enhancedPrompt)
        /\ result[1].addedLength = result[1].totalLength - Len(systemPrompt)
        /\ result[1].addedLength >= 0

\* C39: when no two configs of the activation list have the same effective
\* priority, execute() on any permutation of the list gives the applied
\* prompts, the enhanced prompt and the set of conflict records it gave on
\* the list itself.
C39_OrderIndependentWhenPrioritiesDistinct ==
    (/\ result # <<>>
     /\ \A i, j \in DOMAIN activePrompts :
            activePrompts[i].priority = activePrompts[j].priority => i = j) =>
        \A q \in [DOMAIN activePrompts -> DOMAIN activePrompts] :
            (\A i, j \in DOMAIN activePrompts : q[i] = q[j] => i = j) =>
                LET permuted == execute(systemPrompt,
                                        [i \in DOMAIN activePrompts |-> activePrompts[q[i]]])
                IN /\ permuted.appliedPrompts = result[1].appliedPrompts
                   /\ permuted.enhancedPrompt = result[1].enhancedPrompt
                   /\ {permuted.conflictResolution[i] :
                            i \in DOMAIN permuted.conflictResolution}
                        = {result[1].conflictResolution[i] :
                            i \in DOMAIN result[1].conflictResolution}

\* execute() has run on three configs of distinct priorities, not in
\* descending order, two of them of one category.
C39_Witness ==
    /\ result # <<>>
    /\ Len(activePrompts) = 3
    /\ activePrompts[1].priority < activePrompts[2].priority
    /\ activePrompts[2].priority < activePrompts[3].priority
    /\ Len(result[1].conflictResolution) = 1
    /\ Len(result[1].appliedPrompts) = 2

\* C40: execute() and generatePromptSummary() leave the caller's activation
\* list as it was, element for element, and an execute() repeated on the same
\* arguments returns a result equal to the first.
C40_InputsUnchangedAndExecuteRepeatable ==
    [][/\ (ComposerExecute \/ ComposerSummary) => activePrompts' = activePrompts
       /\ (ComposerExecute /\ result # <<>>) => result' = result]_vars

\* Both operations have run on a list that is not in descending order of
\* priority and holds two configs of one category.
C40_Witness ==
    /\ result # <<>>
    /\ summary # <<>>
    /\ Len(activePrompts) >= 2
    /\ activePrompts[1].priority < activePrompts[2].priority
    /\ activePrompts[1].block.category = activePrompts[2].block.category

====
